---- MODULE Spec2Model ----
(***************************************************************************)
(* Transcript clean-up (whisper-village, ml/): the label plumbing around   *)
(* the tagging models.  Texts are sequences of one-character strings, so   *)
(* that splitting, joining and regular-expression matching are computed    *)
(* character by character as the Python code computes them.                *)
(***************************************************************************)
EXTENDS Integers, Sequences, FiniteSets, TLC

VARIABLES
    \* ---- one tagger stage (ml/pipeline/models.py)
    stage,          \* the stage object: its class and its model's id2label
    text,           \* argument of the process call
    output,         \* value the call returned
    word_labels,    \* dict built by _get_word_labels in the call
    calls,          \* invocations of the labeling capability by the call
    called,         \* whether the call has returned
    detail,         \* value process_with_details returned on the same text
    detailed,       \* whether that call has returned
    \* ---- the same call under a second prediction vector
    word_ids,       \* the tokenizer's subword-to-word index map
    predictions,    \* argmax label id per subword
    predictions2,   \* another model's label id per subword, same tokenizer
    word_labels2,   \* _get_word_labels under predictions2
    output2,        \* process under predictions2
    \* ---- tokenize_and_align_labels (ml/training/train_*.py)
    a_cat,          \* category of the training script's LABEL_LIST
    ner_tags,       \* examples["ner_tags"][i]: one label id per word
    a_word_ids,     \* tokenized.word_ids(batch_index=i)
    label_ids,      \* the aligned labels, one per subword
    recon,          \* word labels read back from the first subwords
    a_pc,           \* "start", "aligned", "read"
    \* ---- the annotation parsers (parse_fillers_only,
    \*      parse_disfluency_speech_transcript)
    variant,        \* which of the two parsers runs
    annotated,      \* its argument
    p_text,         \* text: annotated without the <...> markup
    p_i,            \* i: the cursor into text
    tokens,
    tags,
    p_pc,           \* "start", "scan", "done"
    rule,           \* the branch the last loop iteration took
    prev_i,         \* the cursor at the start of the last iteration
    iters,          \* loop iterations run so far
    \* ---- TranscriptPipeline (ml/pipeline/pipeline.py)
    models,         \* self.models: the stage list, by class name
    origin,         \* how the list was built: "flags", "custom", "mutated"
    pl_args,        \* the constructor's custom_models: [given, custom_models]
    pl_text,        \* argument of the process / process_with_details call
    pl_result,      \* what the call returned: [kind, output, steps]
    pl_trace,       \* each stage call made: [model, input, output, calls]
    pl_pc,          \* "built", "done"
    \* ---- the /process handler (ml/server.py)
    MODELS,         \* names of the models load_models loaded
    request,        \* the JSON body: [has_text, text, has_models, models, list_style]
    response,       \* [status, text, original, models_applied, has_error]
    sv_trace,       \* each MODELS[name].process call: [stage, input, raised, output]
    sv_pc,          \* "ready", "done"
    \* ---- is_repetition and load_repetition_data (ml/training/train_repetition_only.py)
    example,        \* the (word, tag) pairs is_repetition is called on
    verdict,        \* what is_repetition returned
    c_pc,           \* "input", "done"
    row,            \* the row of the file the loop is at, or NoRow
    row_verdict,    \* what is_repetition returned for that row
    counters,       \* [total, kept, skipped_repair, skipped_no_disfl]
    n_tokens,       \* len(tokens_list), which is also len(tags_list)
    appended,       \* what this iteration appended to the two lists, or <<>>
    before,         \* counters and n_tokens when this iteration began
    l_pc,           \* "top", "handled", "returned"
    \* ---- _fix_newlines and convert_list_style on one text
    lt_text,        \* the argument of both calls
    lt_fixed,       \* what _fix_newlines returned
    lt_style,       \* the style convert_list_style was called with
    lt_converted,   \* what convert_list_style returned
    lt_pc,          \* "input", "fixed", "converted"
    \* ---- construction of a stage or of a TranscriptPipeline
    dirs,           \* the model directories that exist
    cn_args,        \* what is constructed, and with which arguments
    cn_result,      \* [status, models]: the object's stage list, or the exception
    cn_loaded,      \* classes whose tokenizer and model were loaded, in order
    cn_pc,          \* "args", "done"
    \* ---- the lazily loaded instances (ml/pipeline/server.py)
    cache,          \* _full_pipeline, _filler_only, _rep_only: an instance or None
    th_pc,          \* where each thread is in its get_* call
    th_kind,        \* which get_* it is in
    th_local,       \* the object its constructor call evaluated to
    th_calls,       \* calls the thread has begun
    constructed,    \* per kind: instances constructed so far
    returned,       \* per kind: the instances the calls returned, in order
    overlapped,     \* per kind: whether two calls were ever in progress at once
    \* ---- load_switchboard_data (ml/training/train_repetition.py)
    sw_row,         \* the row of the file the loop is at, or NoRow
    sw_count,       \* count
    sw_skipped,     \* skipped
    sw_n,           \* len(tokens_list), which is also len(tags_list)
    sw_appended,    \* what this iteration appended to the two lists, or <<>>
    sw_before,      \* count, skipped and sw_n when this iteration began
    sw_pc           \* "top", "handled", "returned"

stageVars == <<stage, text, output, word_labels, calls, called, detail,
               detailed>>
twinVars == <<word_ids, predictions, predictions2, word_labels2, output2>>
alignVars == <<a_cat, ner_tags, a_word_ids, label_ids, recon, a_pc>>

parserVars == <<variant, annotated, p_text, p_i, tokens, tags, p_pc, rule, prev_i,
                iters>>

pipelineVars == <<models, origin, pl_args, pl_text, pl_result, pl_trace, pl_pc>>

serverVars == <<MODELS, request, response, sv_trace, sv_pc>>

repVars == <<example, verdict, c_pc, row, row_verdict, counters,
             n_tokens, appended, before, l_pc>>

listVars == <<lt_text, lt_fixed, lt_style, lt_converted, lt_pc>>

constructVars == <<dirs, cn_args, cn_result, cn_loaded, cn_pc>>

cacheVars == <<cache, th_pc, th_kind, th_local, th_calls, constructed, returned,
               overlapped>>

swbVars == <<sw_row, sw_count, sw_skipped, sw_n, sw_appended, sw_before, sw_pc>>

vars == <<stageVars, twinVars, alignVars, parserVars, pipelineVars, serverVars,
          repVars, listVars, constructVars, cacheVars, swbVars>>

----------------------------------------------------------------------------
(* Bounds *)

MaxTextLen == 4
MaxTokens == 4
MaxWords == 2
MaxSubwords == 3
\* stands for max_length=256 of the training tokenizer call
TruncateAt == 5
MaxPieces == 3
MaxModels == 2
MaxPipeText == 3
MaxRequested == 2
MaxServerText == 2
MaxExample == 6
MaxRows == 2
MaxRowWords == 2
MaxListText == 6

----------------------------------------------------------------------------
(* Python str helpers *)

IsSpace(c) == c \in {" ", "\t", "\n"}

RECURSIVE lstrip(_)
lstrip(s) == IF s /= <<>> /\ IsSpace(Head(s)) THEN lstrip(Tail(s)) ELSE s

RECURSIVE rstrip(_)
rstrip(s) ==
    IF s /= <<>> /\ IsSpace(s[Len(s)]) THEN rstrip(SubSeq(s, 1, Len(s) - 1)) ELSE s

strip(s) == rstrip(lstrip(s))

RECURSIVE SplitAcc(_, _, _)
SplitAcc(s, cur, acc) ==
    IF s = <<>>
    THEN IF cur = <<>> THEN acc ELSE Append(acc, cur)
    ELSE IF IsSpace(Head(s))
         THEN SplitAcc(Tail(s), <<>>, IF cur = <<>> THEN acc ELSE Append(acc, cur))
         ELSE SplitAcc(Tail(s), Append(cur, Head(s)), acc)

\* str.split() with no separator: runs of whitespace separate, no empty words
split(s) == SplitAcc(s, <<>>, <<>>)

RECURSIVE join(_, _)
join(sep, ws) ==
    IF ws = <<>> THEN <<>>
    ELSE IF Len(ws) = 1 THEN ws[1]
    ELSE ws[1] \o sep \o join(sep, Tail(ws))

\* sub in s (substring test)
Contains(s, sub) ==
    \E k \in 0..(Len(s) - Len(sub)) : SubSeq(s, k + 1, k + Len(sub)) = sub

\* s[:n]
Take(s, n) == SubSeq(s, 1, IF n < Len(s) THEN n ELSE Len(s))

SeqsUpTo(S, n) == UNION {[1..k -> S] : k \in 0..n}

----------------------------------------------------------------------------
(* Tags *)

O == <<"O">>
FILL == <<"F", "I", "L", "L">>
REP == <<"R", "E", "P">>
REPAIR == <<"R", "E", "P", "A", "I", "R">>
B(X) == <<"B", "-">> \o X
I(X) == <<"I", "-">> \o X

Categories == {FILL, REP, REPAIR}

\* LABEL_LIST / ID2LABEL of a model trained for category X
LabelList(X) == <<O, B(X), I(X)>>
Id2Label(X) == [id \in 0..2 |-> LabelList(X)[id + 1]]
LabelIds == 0..2

----------------------------------------------------------------------------
(* Tokenizer: the subword-to-word index map (word_ids) *)

None == -1

RECURSIVE Expand(_, _)
\* counts[i] subwords for word i-1, words in order
Expand(counts, w) ==
    IF w > Len(counts) THEN <<>>
    ELSE [k \in 1..counts[w] |-> w - 1] \o Expand(counts, w + 1)

RECURSIVE SumSeq(_)
SumSeq(s) == IF s = <<>> THEN 0 ELSE Head(s) + SumSeq(Tail(s))

\* word_ids() of the n words: [CLS], at least one subword per word, [SEP]
WordIds(n) ==
    {<<None>> \o Expand(c, 1) \o <<None>> :
        c \in {d \in [1..n -> 1..MaxTokens] : SumSeq(d) + 2 <= MaxTokens}}

\* the map of n words, each split into 1..MaxSubwords subwords, no specials
SubwordMaps(n) == {Expand(c, 1) : c \in [1..n -> 1..MaxSubwords]}

\* truncation=True, max_length: the subwords are cut so that the sequence
\* with its two special tokens is at most max_length long
Truncated(subwords, max_length) ==
    <<None>> \o Take(subwords, max_length - 2) \o <<None>>

----------------------------------------------------------------------------
(* tokenize_and_align_labels *)

IGNORE == -100

RECURSIVE AlignFrom(_, _, _, _, _)
AlignFrom(X, label, wids, k, previous_word_idx) ==
    IF k > Len(wids) THEN <<>>
    ELSE LET word_idx == wids[k]
             here == IF word_idx = None THEN IGNORE
                     ELSE IF word_idx /= previous_word_idx
                          THEN label[word_idx + 1]
                     ELSE IF Id2Label(X)[label[word_idx + 1]] = B(X)
                          THEN CHOOSE id \in LabelIds : Id2Label(X)[id] = I(X)
                          ELSE label[word_idx + 1]
         IN  <<here>> \o AlignFrom(X, label, wids, k + 1, word_idx)

\* the continuation rule applied to every subword, the first included
align_labels_inside(X, label, wids) ==
    [k \in 1..Len(wids) |->
        IF wids[k] = None THEN IGNORE
        ELSE IF Id2Label(X)[label[wids[k] + 1]] = B(X)
             THEN CHOOSE id \in LabelIds : Id2Label(X)[id] = I(X)
             ELSE label[wids[k] + 1]]

\* every subword given its word's tag as it is
align_labels_copy(X, label, wids) ==
    [k \in 1..Len(wids) |->
        IF wids[k] = None THEN IGNORE ELSE label[wids[k] + 1]]

\* label_ids of one example
align_labels(X, label, wids) == AlignFrom(X, label, wids, 1, None)

----------------------------------------------------------------------------
(* The annotation parsers: regular expressions on text[i:] *)

UpperCase == <<"A", "B", "C", "D", "E", "F", "G", "H", "I", "J", "K", "L", "M",
               "N", "O", "P", "Q", "R", "S", "T", "U", "V", "W", "X", "Y", "Z">>
LowerCase == <<"a", "b", "c", "d", "e", "f", "g", "h", "i", "j", "k", "l", "m",
               "n", "o", "p", "q", "r", "s", "t", "u", "v", "w", "x", "y", "z">>
Digits == {"0", "1", "2", "3", "4", "5", "6", "7", "8", "9"}

IsUpper(c) == \E k \in 1..Len(UpperCase) : UpperCase[k] = c
IsLower(c) == \E k \in 1..Len(LowerCase) : LowerCase[k] = c

LowerChar(c) ==
    IF IsUpper(c) THEN LowerCase[CHOOSE k \in 1..Len(UpperCase) : UpperCase[k] = c]
    ELSE c

\* str.lower()
lower(w) == [k \in 1..Len(w) |-> LowerChar(w[k])]

\* the class [\w']
IsWordChar(c) == IsUpper(c) \/ IsLower(c) \/ c \in Digits \/ c \in {"_", "'"}

\* text[i:]
Rest(t, from) == SubSeq(t, from + 1, Len(t))

RECURSIVE FindFirst(_, _, _)
\* the first index >= from of s holding a character of S; 0 if there is none
FindFirst(s, from, S) ==
    IF from > Len(s) THEN 0
    ELSE IF s[from] \in S THEN from
    ELSE FindFirst(s, from + 1, S)

RECURSIVE SkipSpaces(_, _)
\* the first index >= from of s that holds no whitespace (Len(s) + 1 if none)
SkipSpaces(s, from) ==
    IF from <= Len(s) /\ IsSpace(s[from]) THEN SkipSpaces(s, from + 1) ELSE from

NoMatch == [end |-> 0, group1 |-> <<>>, group2 |-> <<>>]

\* re.match(r'\{F\s+([^}]+)\}', s) and its D and C likes; end = match.end()
BraceMatch(letter, s) ==
    IF Len(s) >= 5 /\ s[1] = "{" /\ s[2] = letter /\ IsSpace(s[3])
    THEN LET k == FindFirst(s, 4, {"}"})
         IN  IF k >= 5
             THEN LET a == SkipSpaces(s, 4)
                      start == IF a <= k - 1 THEN a ELSE k - 1
                  IN  [end |-> k, group1 |-> SubSeq(s, start, k - 1),
                       group2 |-> <<>>]
             ELSE NoMatch
    ELSE NoMatch

\* re.match(r'\[\s*([^+\]]*)\+\s*([^\]]*)\]', s)
RepairMatch(s) ==
    IF s /= <<>> /\ s[1] = "["
    THEN LET p == FindFirst(s, 2, {"+", "]"})
         IN  IF p > 0 /\ s[p] = "+"
             THEN LET q == FindFirst(s, p + 1, {"]"})
                  IN  IF q > 0
                      THEN [end |-> q,
                            group1 |-> SubSeq(s, SkipSpaces(s, 2), p - 1),
                            group2 |-> SubSeq(s, SkipSpaces(s, p + 1), q - 1)]
                      ELSE NoMatch
             ELSE NoMatch
    ELSE NoMatch

RECURSIVE WordRun(_, _)
\* re.match(r"[\w']+", s).end(), 0 for no match
WordRun(s, n) ==
    IF n < Len(s) /\ IsWordChar(s[n + 1]) THEN WordRun(s, n + 1) ELSE n

RECURSIVE StripMarkupFrom(_, _)
\* re.sub(r'<[^>]+>', '', s) from index j on
StripMarkupFrom(s, j) ==
    IF j > Len(s) THEN <<>>
    ELSE LET k == IF s[j] = "<" THEN FindFirst(s, j + 1, {">"}) ELSE 0
         IN  IF k >= j + 2
             THEN StripMarkupFrom(s, k + 1)
             ELSE <<s[j]>> \o StripMarkupFrom(s, j + 1)

StripMarkup(s) == StripMarkupFrom(s, 1)

\* content.replace(',', '').split()
ContentWords(content) == split(SelectSeq(strip(content), LAMBDA c : c /= ","))

Nothing == [tokens |-> <<>>, tags |-> <<>>]

RECURSIVE EmitLoop(_, _, _, _, _, _)
\* for j, word in enumerate(words): if word [and not word.startswith('-')]:
\*     tokens.append(word.lower()); tags.append(first if j == 0 else later)
EmitLoop(ws, j, dropDash, first, later, acc) ==
    IF j >= Len(ws) THEN acc
    ELSE LET word == ws[j + 1]
         IN  IF word /= <<>> /\ ~(dropDash /\ Head(word) = "-")
             THEN EmitLoop(ws, j + 1, dropDash, first, later,
                    [tokens |-> Append(acc.tokens, lower(word)),
                     tags |-> Append(acc.tags, IF j = 0 THEN first ELSE later)])
             ELSE EmitLoop(ws, j + 1, dropDash, first, later, acc)

RECURSIVE EmitLoopTagAll(_, _, _, _, _, _)
\* a loop that appends a tag for a dropped fragment word too
EmitLoopTagAll(ws, j, dropDash, first, later, acc) ==
    IF j >= Len(ws) THEN acc
    ELSE LET word == ws[j + 1]
             keep == word /= <<>> /\ ~(dropDash /\ Head(word) = "-")
         IN  EmitLoopTagAll(ws, j + 1, dropDash, first, later,
                [tokens |-> IF keep THEN Append(acc.tokens, lower(word))
                            ELSE acc.tokens,
                 tags |-> Append(acc.tags, IF j = 0 THEN first ELSE later)])

EmitTagAll(ws, dropDash, first, later, acc) ==
    EmitLoopTagAll(ws, 0, dropDash, first, later, acc)

\* a loop that gives every word the tag of the first
EmitAllFirst(ws, dropDash, first, later, acc) ==
    EmitLoop(ws, 0, dropDash, first, first, acc)

\* a loop that keeps the words starting with '-'
EmitKeepDash(ws, dropDash, first, later, acc) ==
    EmitLoop(ws, 0, FALSE, first, later, acc)

Emit(ws, dropDash, first, later, acc) == EmitLoop(ws, 0, dropDash, first, later, acc)

Variants == {"parse_fillers_only", "parse_disfluency_speech_transcript"}

\* the category of the tags a parser writes
CatOf(v) == IF v = "parse_fillers_only" THEN FILL ELSE REP

\* one iteration of the while loop over s = text[i:]
IterateBody(v, s) ==
    LET filler_match == BraceMatch("F", s)
        disc_match == BraceMatch("D", s)
        conj_match == BraceMatch("C", s)
        repair_match == RepairMatch(s)
        word_end == WordRun(s, 0)
        only == v = "parse_fillers_only"
    IN  IF filler_match.end > 0
        THEN [rule |-> "filler", end |-> filler_match.end,
              out |-> Emit(ContentWords(filler_match.group1), FALSE,
                           B(CatOf(v)), I(CatOf(v)), Nothing)]
        ELSE IF disc_match.end > 0
        THEN [rule |-> "discourse", end |-> disc_match.end,
              out |-> IF only
                      THEN Emit(ContentWords(disc_match.group1), FALSE, O, O, Nothing)
                      ELSE Emit(ContentWords(disc_match.group1), FALSE,
                                B(REP), I(REP), Nothing)]
        ELSE IF conj_match.end > 0
        THEN [rule |-> "conjunction", end |-> conj_match.end,
              out |-> Emit(ContentWords(conj_match.group1), FALSE, O, O, Nothing)]
        ELSE IF repair_match.end > 0
        THEN [rule |-> "repair", end |-> repair_match.end,
              out |-> Emit(ContentWords(repair_match.group2), TRUE, O, O,
                           IF only
                           THEN Emit(ContentWords(repair_match.group1), TRUE,
                                     O, O, Nothing)
                           ELSE Emit(ContentWords(repair_match.group1), TRUE,
                                     B(REP), I(REP), Nothing))]
        ELSE IF word_end > 0
        THEN [rule |-> "word", end |-> word_end,
              out |-> [tokens |-> <<lower(SubSeq(s, 1, word_end))>>,
                       tags |-> <<O>>]]
        ELSE [rule |-> "skip", end |-> 1, out |-> Nothing]

\* the loop without its final i += 1
IterateNoAdvance(v, s) ==
    LET r == IterateBody(v, s)
    IN  IF r.rule = "skip" THEN [r EXCEPT !.end = 0] ELSE r

Iterate(v, s) == IterateBody(v, s)

----------------------------------------------------------------------------
(* BaseModel and its subclasses *)

StageClasses == {"FillerRemover", "RepetitionRemover", "RepairRemover"}

RECURSIVE WordLabelsFrom(_, _, _, _, _)
WordLabelsFrom(id2label, wids, preds, idx, acc) ==
    IF idx > Len(wids) THEN acc
    ELSE LET word_idx == wids[idx]
         IN  IF word_idx /= None /\ word_idx \notin DOMAIN acc
             THEN WordLabelsFrom(id2label, wids, preds, idx + 1,
                                 acc @@ (word_idx :> id2label[preds[idx]]))
             ELSE WordLabelsFrom(id2label, wids, preds, idx + 1, acc)

RECURSIVE WordLabelsLastFrom(_, _, _, _, _)
WordLabelsLastFrom(id2label, wids, preds, idx, acc) ==
    IF idx > Len(wids) THEN acc
    ELSE LET word_idx == wids[idx]
         IN  IF word_idx /= None
             THEN WordLabelsLastFrom(id2label, wids, preds, idx + 1,
                    (word_idx :> id2label[preds[idx]]) @@ acc)
             ELSE WordLabelsLastFrom(id2label, wids, preds, idx + 1, acc)

\* a dict in which every subword of a word overwrites the word's label
get_word_labels_last(id2label, wids, preds) ==
    WordLabelsLastFrom(id2label, wids, preds, 1, <<>>)

\* word index -> label of the first subword of the word
get_word_labels(id2label, wids, preds) ==
    WordLabelsFrom(id2label, wids, preds, 1, <<>>)

\* dict.get(i, "O")
LabelOf(wl, i) == IF i \in DOMAIN wl THEN wl[i] ELSE O

should_remove(label) == Contains(label, REPAIR)

\* a predicate that removes only the words that open a span
KeepUnlessBegin(cls, label) ==
    IF cls = "RepairRemover" THEN ~should_remove(label) ELSE Head(label) /= "B"

\* the condition of the list comprehension of process
Keep(cls, label) ==
    IF cls = "RepairRemover" THEN ~should_remove(label) ELSE label = O

RECURSIVE KeptFrom(_, _, _, _)
KeptFrom(cls, words, wl, i) ==
    IF i > Len(words) THEN <<>>
    ELSE (IF Keep(cls, LabelOf(wl, i - 1)) THEN <<words[i]>> ELSE <<>>)
         \o KeptFrom(cls, words, wl, i + 1)

IsBlank(t) == strip(t) = <<>>

\* process without its guard for blank text
process_rejoin(cls, t, wl) == join(<<" ">>, KeptFrom(cls, split(t), wl, 1))

\* process(text), given the dict _get_word_labels returned for its words
process(cls, t, wl) ==
    IF IsBlank(t) THEN t ELSE join(<<" ">>, KeptFrom(cls, split(t), wl, 1))

RECURSIVE RemovedFrom(_, _, _)
RemovedFrom(words, wl, k) ==
    IF k > Len(words) THEN <<>>
    ELSE (IF LabelOf(wl, k - 1) = O THEN <<>> ELSE <<words[k]>>)
         \o RemovedFrom(words, wl, k + 1)

\* BaseModel.process_with_details, inherited unchanged by every subclass
process_with_details(t, wl) ==
    IF IsBlank(t) THEN [output |-> t, removed |-> <<>>, labels |-> <<>>]
    ELSE LET words == split(t)
         IN  [output |-> join(<<" ">>, KeptFrom("BaseModel", words, wl, 1)),
              removed |-> RemovedFrom(words, wl, 1),
              labels |-> [w \in {words[k] : k \in 1..Len(words)} |->
                            LabelOf(wl, (CHOOSE k \in 1..Len(words) :
                                /\ words[k] = w
                                /\ \A m \in (k + 1)..Len(words) : words[m] /= w) - 1)]]

\* the id2label of the model each class loads from its MODEL_DIR
DefaultId2Label(cls) ==
    IF cls = "FillerRemover" THEN Id2Label(FILL)
    ELSE IF cls = "RepetitionRemover" THEN Id2Label(REP)
    ELSE Id2Label(REPAIR)

\* the dicts _get_word_labels can return for n words: every word has a first
\* subword, and the model may predict any label id there
LabelDicts(n, id2label) == [0..(n - 1) -> {id2label[id] : id \in LabelIds}]

\* what a tagger's process (details = FALSE) or process_with_details can
\* return on t, with the number of calls of the labeling capability
TaggerOutcomes(cls, t, details) ==
    IF IsBlank(t) THEN {[output |-> t, removed |-> <<>>, calls |-> 0]}
    ELSE {[output |-> IF details THEN process_with_details(t, wl).output
                      ELSE process(cls, t, wl),
           removed |-> process_with_details(t, wl).removed,
           calls |-> 1] : wl \in LabelDicts(Len(split(t)), DefaultId2Label(cls))}

----------------------------------------------------------------------------
(* ListFormatter and Truecaser *)

RECURSIVE FixNewlinesFrom(_, _)
\* re.sub(r'(?<!^)(\s-\s)(?=[A-Z])', r'\n- ', s) from index j on
FixNewlinesFrom(s, j) ==
    IF j > Len(s) THEN <<>>
    ELSE IF /\ j > 1 /\ j + 3 <= Len(s)
            /\ IsSpace(s[j]) /\ s[j + 1] = "-" /\ IsSpace(s[j + 2])
            /\ IsUpper(s[j + 3])
         THEN <<"\n", "-", " ">> \o FixNewlinesFrom(s, j + 3)
         ELSE <<s[j]>> \o FixNewlinesFrom(s, j + 1)

RECURSIVE FixNewlinesPrepending(_, _)
\* a substitution that puts a line break in front of the match and keeps it
FixNewlinesPrepending(s, j) ==
    IF j > Len(s) THEN <<>>
    ELSE IF /\ j > 1 /\ j + 3 <= Len(s)
            /\ IsSpace(s[j]) /\ s[j + 1] = "-" /\ IsSpace(s[j + 2])
            /\ IsUpper(s[j + 3])
         THEN <<"\n", s[j], "-", s[j + 2]>> \o FixNewlinesPrepending(s, j + 3)
         ELSE <<s[j]>> \o FixNewlinesPrepending(s, j + 1)

fix_newlines_prepending(s) == FixNewlinesPrepending(s, 1)

fix_newlines(s) == FixNewlinesFrom(s, 1)

\* texts model.generate may decode to for the prompt "format list: " + t
Generated(t) == {t, <<>>, <<"a", " ", "-", " ", "A">>}

ListFormatterOutcomesUnguarded(t) ==
    {[output |-> fix_newlines(g), removed |-> <<>>, calls |-> 1] : g \in Generated(t)}

\* ListFormatter.process
ListFormatterOutcomes(t) ==
    IF IsBlank(t) THEN {[output |-> t, removed |-> <<>>, calls |-> 0]}
    ELSE {[output |-> fix_newlines(g), removed |-> <<>>, calls |-> 1] :
            g \in Generated(t)}

UpperChar(c) ==
    IF IsLower(c) THEN UpperCase[CHOOSE k \in 1..Len(LowerCase) : LowerCase[k] = c]
    ELSE c

\* texts truecase.get_true_case(t) may return: t with some letters capitalised
TrueCased(t) ==
    {[k \in 1..Len(t) |-> IF k \in S THEN UpperChar(t[k]) ELSE t[k]] :
        S \in SUBSET (1..Len(t))}

\* Truecaser.process; an exception inside get_true_case returns t
TruecaserOutcomes(t) ==
    IF IsBlank(t) THEN {[output |-> t, removed |-> <<>>, calls |-> 0]}
    ELSE {[output |-> g, removed |-> <<>>, calls |-> 1] : g \in TrueCased(t)}

TaggerClasses == {"FillerRemover", "RepetitionRemover", "RepairRemover"}
PipelineClasses == TaggerClasses \cup {"ListFormatter", "Truecaser"}

\* model.process(t) for a stage of class cls
ProcessOutcomes(cls, t) ==
    IF cls = "ListFormatter" THEN ListFormatterOutcomes(t)
    ELSE IF cls = "Truecaser" THEN TruecaserOutcomes(t)
    ELSE TaggerOutcomes(cls, t, FALSE)

----------------------------------------------------------------------------
(* TranscriptPipeline *)

FromFlagsRepetitionFirst(enable_fillers, enable_repetitions, enable_repairs) ==
    (IF enable_repetitions THEN <<"RepetitionRemover">> ELSE <<>>)
    \o (IF enable_fillers THEN <<"FillerRemover">> ELSE <<>>)
    \o (IF enable_repairs THEN <<"RepairRemover">> ELSE <<>>)

\* __init__ with no custom_models: the enabled stages, appended in this order
FromFlags(enable_fillers, enable_repetitions, enable_repairs) ==
    (IF enable_fillers THEN <<"FillerRemover">> ELSE <<>>)
    \o (IF enable_repetitions THEN <<"RepetitionRemover">> ELSE <<>>)
    \o (IF enable_repairs THEN <<"RepairRemover">> ELSE <<>>)

\* list.insert(index, x)
ListInsert(l, index, x) ==
    LET n == Len(l)
        at == IF index < 0 THEN (IF n + index < 0 THEN 0 ELSE n + index)
              ELSE IF index > n THEN n ELSE index
    IN  SubSeq(l, 1, at) \o <<x>> \o SubSeq(l, at + 1, n)

RECURSIVE ProcessRuns(_, _, _, _)
\* TranscriptPipeline.process from stage k on: the possible results
ProcessRuns(ms, k, result, trace) ==
    IF k > Len(ms) THEN {[kind |-> "ok", output |-> result, steps |-> <<>>,
                          trace |-> trace]}
    ELSE UNION {ProcessRuns(ms, k + 1, o.output,
                    Append(trace, [model |-> ms[k], input |-> result,
                                   output |-> o.output, calls |-> o.calls])) :
                o \in ProcessOutcomes(ms[k], result)}

RECURSIVE DetailRunsUnthreaded(_, _, _, _, _)
\* every stage is handed the call's text
DetailRunsUnthreaded(ms, k, current_text, steps, trace) ==
    IF k > Len(ms) THEN {[kind |-> "ok", output |-> current_text, steps |-> steps,
                          trace |-> trace]}
    ELSE IF ms[k] \notin TaggerClasses
    THEN {[kind |-> "AttributeError", output |-> <<>>, steps |-> <<>>,
           trace |-> trace]}
    ELSE UNION {DetailRunsUnthreaded(ms, k + 1, current_text,
                    Append(steps, [model |-> ms[k], input |-> current_text,
                                   output |-> o.output, removed |-> o.removed]),
                    Append(trace, [model |-> ms[k], input |-> current_text,
                                   output |-> o.output, calls |-> o.calls])) :
                o \in TaggerOutcomes(ms[k], current_text, TRUE)}

RECURSIVE DetailRuns(_, _, _, _, _)
\* TranscriptPipeline.process_with_details from stage k on; a stage that is
\* not a BaseModel has no process_with_details
DetailRuns(ms, k, current_text, steps, trace) ==
    IF k > Len(ms) THEN {[kind |-> "ok", output |-> current_text, steps |-> steps,
                          trace |-> trace]}
    ELSE IF ms[k] \notin TaggerClasses
    THEN {[kind |-> "AttributeError", output |-> <<>>, steps |-> <<>>,
           trace |-> trace]}
    ELSE UNION {DetailRuns(ms, k + 1, o.output,
                    Append(steps, [model |-> ms[k], input |-> current_text,
                                   output |-> o.output, removed |-> o.removed]),
                    Append(trace, [model |-> ms[k], input |-> current_text,
                                   output |-> o.output, calls |-> o.calls])) :
                o \in TaggerOutcomes(ms[k], current_text, TRUE)}

----------------------------------------------------------------------------
(* Construction: BaseModel.__init__, ListFormatter.__init__,
   TranscriptPipeline.__init__ *)

\* MODEL_DIR of each class
MODEL_DIR ==
    [FillerRemover |-> "filler-remover", RepetitionRemover |-> "repetition-remover",
     RepairRemover |-> "repair-remover", ListFormatter |-> "list-formatter"]

\* __init__(model_path) of a tagger class or of ListFormatter: the possible
\* outcomes; from_pretrained may fail on a directory that exists
construct_stage(cls, model_path, existing) ==
    LET path == IF model_path /= "" THEN model_path ELSE MODEL_DIR[cls]
    IN  IF path \notin existing
        THEN {[status |-> "FileNotFoundError", loaded |-> <<>>]}
        ELSE {[status |-> "ok", loaded |-> <<cls>>],
              [status |-> "OSError", loaded |-> <<>>]}

RECURSIVE ConstructSkipping(_, _, _, _, _)
\* a constructor that leaves out a stage whose construction failed
ConstructSkipping(classes, k, ms, loaded, existing) ==
    IF k > Len(classes)
    THEN {[status |-> "ok", models |-> ms, loaded |-> loaded]}
    ELSE UNION {
        IF o.status = "ok"
        THEN ConstructSkipping(classes, k + 1, Append(ms, classes[k]),
                               loaded \o o.loaded, existing)
        ELSE ConstructSkipping(classes, k + 1, ms, loaded, existing) :
        o \in construct_stage(classes[k], "", existing)}

RECURSIVE ConstructFrom(_, _, _, _, _)
\* the appends of TranscriptPipeline.__init__ from the k-th enabled class on
ConstructFrom(classes, k, ms, loaded, existing) ==
    IF k > Len(classes)
    THEN {[status |-> "ok", models |-> ms, loaded |-> loaded]}
    ELSE UNION {
        IF o.status = "ok"
        THEN ConstructFrom(classes, k + 1, Append(ms, classes[k]),
                           loaded \o o.loaded, existing)
        ELSE {[status |-> o.status, models |-> <<>>, loaded |-> loaded]} :
        o \in construct_stage(classes[k], "", existing)}

----------------------------------------------------------------------------
(* The /process handler of ml/server.py *)

DigitChars == <<"0", "1", "2", "3", "4", "5", "6", "7", "8", "9">>

RECURSIVE str(_)
\* str(n) of a non-negative int
str(n) ==
    IF n < 10 THEN <<DigitChars[n + 1]>>
    ELSE str(n \div 10) \o <<DigitChars[(n % 10) + 1]>>

RECURSIVE SplitOn(_, _, _)
\* s.split(sep) for a one-character separator; cur is the piece being read
SplitOn(s, sep, cur) ==
    IF s = <<>> THEN <<cur>>
    ELSE IF Head(s) = sep THEN <<cur>> \o SplitOn(Tail(s), sep, <<>>)
    ELSE SplitOn(Tail(s), sep, Append(cur, Head(s)))

startswith(s, prefix) ==
    Len(s) >= Len(prefix) /\ SubSeq(s, 1, Len(prefix)) = prefix

RECURSIVE NumberLinesOn(_, _, _)
\* a counter that no line resets
NumberLinesOn(lines, k, num) ==
    IF k > Len(lines) THEN <<>>
    ELSE IF startswith(lines[k], <<"-", " ">>)
         THEN <<str(num) \o <<".", " ">> \o SubSeq(lines[k], 3, Len(lines[k]))>>
              \o NumberLinesOn(lines, k + 1, num + 1)
         ELSE <<lines[k]>> \o NumberLinesOn(lines, k + 1, num)

convert_list_style_on(t, style) ==
    IF style /= "numbered" THEN t
    ELSE join(<<"\n">>, NumberLinesOn(SplitOn(t, "\n", <<>>), 1, 1))

RECURSIVE NumberLines(_, _, _)
\* the loop of convert_list_style from line k on, with counter num
NumberLines(lines, k, num) ==
    IF k > Len(lines) THEN <<>>
    ELSE IF startswith(lines[k], <<"-", " ">>)
         THEN <<str(num) \o <<".", " ">> \o SubSeq(lines[k], 3, Len(lines[k]))>>
              \o NumberLines(lines, k + 1, num + 1)
         ELSE <<lines[k]>> \o NumberLines(lines, k + 1, 1)

convert_list_style(t, style) ==
    IF style /= "numbered" THEN t
    ELSE join(<<"\n">>, NumberLines(SplitOn(t, "\n", <<>>), 1, 1))

AVAILABLE_MODELS ==
    [filler |-> "FillerRemover", repetition |-> "RepetitionRemover",
     repair |-> "RepairRemover", list |-> "ListFormatter",
     truecase |-> "Truecaser"]

DEFAULT_MODELS == <<"filler">>
DISFLUENCY_ORDER == <<"filler", "repetition", "repair">>

InList(x, l) == \E k \in DOMAIN l : l[k] = x

StagesAsRequested(requested_models, loaded) ==
    SelectSeq(requested_models, LAMBDA name : name \in loaded)

\* the stages in the handler's order that were requested, loaded or not
StagesIgnoringLoaded(requested_models, loaded) ==
    SelectSeq(<<"truecase", "filler", "repetition", "repair", "list">>,
              LAMBDA name : InList(name, requested_models))

\* the stages the handler calls, in the order it reaches them: truecase,
\* the DISFLUENCY_ORDER loop, list; each if requested and loaded
StagesToRun(requested_models, loaded) ==
    SelectSeq(<<"truecase">> \o DISFLUENCY_ORDER \o <<"list">>,
              LAMBDA name : InList(name, requested_models) /\ name \in loaded)

RECURSIVE HandlerRuns(_, _, _, _, _, _)
\* the try blocks from stage k of plan on: process raises and the stage is
\* skipped, or it returns and the stage is appended to models_applied
HandlerRuns(plan, k, t, models_applied, trace, list_style) ==
    IF k > Len(plan)
    THEN {[text |-> t, models_applied |-> models_applied, trace |-> trace]}
    ELSE HandlerRuns(plan, k + 1, t, models_applied,
             Append(trace, [stage |-> plan[k], input |-> t, raised |-> TRUE,
                            output |-> <<>>]), list_style)
         \cup UNION {
             LET out == IF plan[k] = "list"
                        THEN convert_list_style(o.output, list_style)
                        ELSE o.output
             IN  HandlerRuns(plan, k + 1, out, Append(models_applied, plan[k]),
                     Append(trace, [stage |-> plan[k], input |-> t,
                                    raised |-> FALSE, output |-> out]),
                     list_style) :
             o \in ProcessOutcomes(AVAILABLE_MODELS[plan[k]], t)}

----------------------------------------------------------------------------
(* is_repetition (ml/training/train_repetition_only.py) *)

\* OVERLAP_THRESHOLD = 0.5, as numerator and denominator
OVERLAP_THRESHOLD == [num |-> 1, den |-> 2]

ReparandumTags == {"BE", "IE", "BE_IP"}
FluentTags == {"O", "C"}

Min(a, b) == IF a < b THEN a ELSE b
Range(f) == {f[k] : k \in DOMAIN f}

RECURSIVE ScanExample(_, _, _, _, _, _)
\* the loop over zip(words, tags) from pair k on; ms_disfl is the tags
ScanExample(words, ms_disfl, k, reparandum_words, repair_words, seen_reparandum) ==
    IF k > Min(Len(words), Len(ms_disfl))
    THEN [reparandum_words |-> reparandum_words, repair_words |-> repair_words]
    ELSE LET w_lower == lower(words[k])
             t == ms_disfl[k]
         IN  IF t \in ReparandumTags
             THEN ScanExample(words, ms_disfl, k + 1, Append(reparandum_words, w_lower),
                              repair_words, TRUE)
             ELSE IF t \in FluentTags /\ seen_reparandum
             THEN ScanExample(words, ms_disfl, k + 1, reparandum_words,
                              Append(repair_words, w_lower), seen_reparandum)
             ELSE ScanExample(words, ms_disfl, k + 1, reparandum_words, repair_words,
                              seen_reparandum)

\* a threshold that the boundary value does not meet
is_repetition_above(words, ms_disfl) ==
    LET s == ScanExample(words, ms_disfl, 1, <<>>, <<>>, FALSE)
        rep_set == Range(s.reparandum_words)
        repair_set == Range(Take(s.repair_words, Len(s.reparandum_words) + 3))
    IN  IF s.reparandum_words = <<>> THEN [is_rep |-> FALSE, reparandum_words |-> <<>>,
                                           repair_words |-> <<>>, divisor |-> None]
        ELSE [is_rep |-> Cardinality(rep_set \cap repair_set) * OVERLAP_THRESHOLD.den
                            > OVERLAP_THRESHOLD.num * Cardinality(rep_set),
              reparandum_words |-> s.reparandum_words,
              repair_words |-> s.repair_words,
              divisor |-> Cardinality(rep_set)]

\* is_repetition(words, ms_disfl); divisor is what len(overlap) was divided by,
\* None when the call divided nothing
is_repetition(words, ms_disfl) ==
    LET s == ScanExample(words, ms_disfl, 1, <<>>, <<>>, FALSE)
        rep_set == Range(s.reparandum_words)
        repair_set == Range(Take(s.repair_words, Len(s.reparandum_words) + 3))
        overlap == rep_set \cap repair_set
    IN  IF s.reparandum_words = <<>>
        THEN [is_rep |-> FALSE, reparandum_words |-> <<>>, repair_words |-> <<>>,
              divisor |-> None]
        ELSE [is_rep |-> Cardinality(overlap) * OVERLAP_THRESHOLD.den
                            >= OVERLAP_THRESHOLD.num * Cardinality(rep_set),
              reparandum_words |-> s.reparandum_words,
              repair_words |-> s.repair_words,
              divisor |-> Cardinality(rep_set)]

----------------------------------------------------------------------------
(* load_repetition_data (ml/training/train_repetition_only.py) *)

\* no call of is_repetition made, and no row read
NoVerdict ==
    [is_rep |-> FALSE, reparandum_words |-> <<>>, repair_words |-> <<>>,
     divisor |-> None]
NoRow == [kind |-> "none", words |-> <<>>, tags |-> <<>>]

convert_tag(tag) ==
    IF tag \in {"BE", "BE_IP"} THEN B(REP)
    ELSE IF tag \in {"IE", "IP", "C_IE", "C_IP"} THEN I(REP)
    ELSE O

\* LABEL2ID over LABEL_LIST = ["O", "B-REP", "I-REP"]
LABEL2ID(label) == (CHOOSE k \in 1..3 : LabelList(REP)[k] = label) - 1

ZeroCounters == [total |-> 0, kept |-> 0, skipped_repair |-> 0, skipped_no_disfl |-> 0]

Skip(c, n, v) == [counters |-> c, n_tokens |-> n, appended |-> <<>>, verdict |-> v]

convert_switchboard_tag(tag) ==
    IF tag \in {"BE", "BE_IP"} THEN B(REP)
    ELSE IF tag \in {"IE", "IP", "C_IE", "C_IP"} THEN I(REP)
    ELSE O

\* the loop body of load_switchboard_data without the comparison of lengths
swb_handle_row_unchecked(r, count, skipped, n) ==
    IF r.kind = "malformed"
    THEN [count |-> count, skipped |-> skipped + 1, n |-> n, appended |-> <<>>]
    ELSE [count |-> count + 1, skipped |-> skipped, n |-> n + 1,
          appended |->
              [tokens |-> [k \in DOMAIN r.words |-> lower(r.words[k])],
               tag_ids |-> [k \in DOMAIN r.tags |->
                               LABEL2ID(convert_switchboard_tag(r.tags[k]))]]]

\* one iteration of the loop of load_switchboard_data, for row r, with the
\* two counters and n elements in tokens_list
swb_handle_row(r, count, skipped, n) ==
    IF r.kind = "malformed"
    THEN [count |-> count, skipped |-> skipped + 1, n |-> n, appended |-> <<>>]
    ELSE IF Len(r.words) /= Len(r.tags)
    THEN [count |-> count, skipped |-> skipped + 1, n |-> n, appended |-> <<>>]
    ELSE [count |-> count + 1, skipped |-> skipped, n |-> n + 1,
          appended |->
              [tokens |-> [k \in DOMAIN r.words |-> lower(r.words[k])],
               tag_ids |-> [k \in DOMAIN r.tags |->
                               LABEL2ID(convert_switchboard_tag(r.tags[k]))]]]

\* the loop body without the test of rep_words
handle_row_unchecked(r, c, n) ==
    LET counted == [c EXCEPT !.total = @ + 1]
    IN  IF r.kind = "malformed" THEN Skip(counted, n, NoVerdict)
        ELSE IF Len(r.words) /= Len(r.tags) THEN Skip(counted, n, NoVerdict)
        ELSE LET v == is_repetition(r.words, r.tags)
             IN  IF ~v.is_rep
                 THEN Skip([counted EXCEPT !.skipped_repair = @ + 1], n, v)
                 ELSE [counters |-> [counted EXCEPT !.kept = @ + 1],
                       n_tokens |-> n + 1,
                       appended |->
                           [tokens |-> [k \in DOMAIN r.words |-> lower(r.words[k])],
                            tag_ids |-> [k \in DOMAIN r.tags |->
                                            LABEL2ID(convert_tag(r.tags[k]))]],
                       verdict |-> v]

\* one iteration of the loop over the rows of the file, for row r, with the
\* counters c and n elements in tokens_list
handle_row(r, c, n) ==
    LET counted == [c EXCEPT !.total = @ + 1]
    IN  IF r.kind = "malformed" THEN Skip(counted, n, NoVerdict)
        ELSE IF Len(r.words) /= Len(r.tags) THEN Skip(counted, n, NoVerdict)
        ELSE LET v == is_repetition(r.words, r.tags)
             IN  IF v.reparandum_words = <<>>
                 THEN Skip([counted EXCEPT !.skipped_no_disfl = @ + 1], n, v)
                 ELSE IF ~v.is_rep
                 THEN Skip([counted EXCEPT !.skipped_repair = @ + 1], n, v)
                 ELSE [counters |-> [counted EXCEPT !.kept = @ + 1],
                       n_tokens |-> n + 1,
                       appended |->
                           [tokens |-> [k \in DOMAIN r.words |-> lower(r.words[k])],
                            tag_ids |-> [k \in DOMAIN r.tags |->
                                            LABEL2ID(convert_tag(r.tags[k]))]],
                       verdict |-> v]

----------------------------------------------------------------------------
(* One call of one stage *)

Chars == {"a", " ", "\t"}
Texts == SeqsUpTo(Chars, MaxTextLen)

Stages == [cls : StageClasses, id2label : {Id2Label(X) : X \in Categories}]

CacheIdle ==
    /\ cache = <<>> /\ th_pc = <<>> /\ th_kind = <<>> /\ th_local = <<>>
    /\ th_calls = <<>> /\ constructed = <<>> /\ returned = <<>> /\ overlapped = <<>>

SwbIdle ==
    /\ sw_row = [kind |-> "none", words |-> <<>>, tags |-> <<>>]
    /\ sw_count = 0 /\ sw_skipped = 0 /\ sw_n = 0 /\ sw_appended = <<>>
    /\ sw_before = <<>> /\ sw_pc = "idle"

ConstructIdle ==
    /\ dirs = {} /\ cn_args = <<>> /\ cn_result = <<>> /\ cn_loaded = <<>>
    /\ cn_pc = "idle"

ListIdle ==
    /\ lt_text = <<>> /\ lt_fixed = <<>> /\ lt_style = "none"
    /\ lt_converted = <<>> /\ lt_pc = "idle"

NoDetails == [output |-> <<>>, removed |-> <<>>, labels |-> <<>>]

StageStart ==
    /\ output = <<>>
    /\ word_labels = <<>>
    /\ calls = 0
    /\ called = FALSE
    /\ detail = NoDetails
    /\ detailed = FALSE

StageIdle == stage = "none" /\ text = <<>> /\ StageStart
TwinIdle ==
    /\ word_ids = <<>> /\ predictions = <<>> /\ predictions2 = <<>>
    /\ word_labels2 = <<>> /\ output2 = <<>>
AlignIdle ==
    /\ a_cat = <<>> /\ ner_tags = <<>> /\ a_word_ids = <<>>
    /\ label_ids = <<>> /\ recon = <<>> /\ a_pc = "idle"

ParserIdle ==
    /\ variant = "none" /\ annotated = <<>> /\ p_text = <<>> /\ p_i = 0
    /\ tokens = <<>> /\ tags = <<>> /\ p_pc = "idle" /\ rule = "none"
    /\ prev_i = 0 /\ iters = 0

PipelineIdle ==
    /\ models = <<>> /\ origin = "none" /\ pl_args = <<>> /\ pl_text = <<>>
    /\ pl_result = <<>> /\ pl_trace = <<>> /\ pl_pc = "idle"

ServerIdle ==
    /\ MODELS = {} /\ request = <<>> /\ response = <<>>
    /\ sv_trace = <<>> /\ sv_pc = "idle"

RepIdle ==
    /\ example = <<>> /\ verdict = NoVerdict
    /\ c_pc = "idle" /\ row = NoRow /\ row_verdict = NoVerdict
    /\ counters = <<>> /\ n_tokens = 0 /\ appended = <<>> /\ before = <<>>
    /\ l_pc = "idle"

InitStage ==
    /\ stage \in Stages
    /\ text \in Texts
    /\ StageStart
    /\ TwinIdle /\ AlignIdle /\ ParserIdle /\ PipelineIdle /\ ServerIdle /\ RepIdle /\ ListIdle /\ ConstructIdle /\ CacheIdle /\ SwbIdle

\* stage.process(text); the tokenizer's map and the model's predictions are
\* the capability's answer
Process ==
    /\ ~called
    /\ called' = TRUE
    /\ IF IsBlank(text)
       THEN /\ output' = process(stage.cls, text, <<>>)
            /\ word_labels' = <<>>
            /\ calls' = 0
       ELSE \E wids \in WordIds(Len(split(text))) :
            \E preds \in [1..Len(wids) -> LabelIds] :
                LET wl == get_word_labels(stage.id2label, wids, preds)
                IN  /\ output' = process(stage.cls, text, wl)
                    /\ word_labels' = wl
                    /\ calls' = 1
    /\ UNCHANGED <<stage, text, detail, detailed, twinVars, alignVars, parserVars, pipelineVars, serverVars, repVars, listVars, constructVars, cacheVars, swbVars>>

\* stage.process_with_details(text) on the text process was called on; the
\* model is deterministic, so _get_word_labels builds the same dict again
ProcessWithDetails ==
    /\ called /\ ~detailed
    /\ detailed' = TRUE
    /\ detail' = process_with_details(text, word_labels)
    /\ UNCHANGED <<stage, text, output, word_labels, calls, called,
                   twinVars, alignVars, parserVars, pipelineVars, serverVars, repVars, listVars, constructVars, cacheVars, swbVars>>

NextStage == Process \/ ProcessWithDetails

SpecStage == InitStage /\ [][NextStage]_vars

----------------------------------------------------------------------------
(* One text under two prediction vectors over the same index map *)

\* the word made of k letters
Word(k) == [j \in 1..k |-> "a"]

\* "a", "a aa", "a aa aaa", ...
TwinTexts == {join(<<" ">>, [k \in 1..n |-> Word(k)]) : n \in 1..(MaxTokens - 2)}

DefaultStages ==
    { [cls |-> "FillerRemover", id2label |-> Id2Label(FILL)],
      [cls |-> "RepetitionRemover", id2label |-> Id2Label(REP)],
      [cls |-> "RepairRemover", id2label |-> Id2Label(REPAIR)] }

InitTwin ==
    /\ stage \in DefaultStages
    /\ text \in TwinTexts
    /\ word_ids \in WordIds(Len(split(text)))
    /\ predictions \in [1..Len(word_ids) -> LabelIds]
    /\ predictions2 \in [1..Len(word_ids) -> LabelIds]
    /\ word_labels2 = <<>> /\ output2 = <<>>
    /\ StageStart
    /\ AlignIdle /\ ParserIdle /\ PipelineIdle /\ ServerIdle /\ RepIdle /\ ListIdle /\ ConstructIdle /\ CacheIdle /\ SwbIdle

ProcessTwin ==
    /\ ~called
    /\ called' = TRUE
    /\ word_labels' = get_word_labels(stage.id2label, word_ids, predictions)
    /\ word_labels2' = get_word_labels(stage.id2label, word_ids, predictions2)
    /\ output' = process(stage.cls, text, word_labels')
    /\ output2' = process(stage.cls, text, word_labels2')
    /\ calls' = 1
    /\ UNCHANGED <<stage, text, detail, detailed, word_ids, predictions,
                   predictions2, alignVars, parserVars, pipelineVars, serverVars, repVars, listVars, constructVars, cacheVars, swbVars>>

NextTwin == ProcessTwin

SpecTwin == InitTwin /\ [][NextTwin]_vars

----------------------------------------------------------------------------
(* Word tags to subword labels and back *)

InitAlign ==
    /\ a_cat \in {FILL, REP}
    /\ \E n \in 1..MaxWords :
        /\ ner_tags \in [1..n -> LabelIds]
        /\ \E subwords \in SubwordMaps(n) :
                a_word_ids = Truncated(subwords, TruncateAt)
    /\ label_ids = <<>>
    /\ recon = <<>>
    /\ a_pc = "start"
    /\ StageIdle /\ TwinIdle /\ ParserIdle /\ PipelineIdle /\ ServerIdle /\ RepIdle /\ ListIdle /\ ConstructIdle /\ CacheIdle /\ SwbIdle

Align ==
    /\ a_pc = "start"
    /\ label_ids' = align_labels(a_cat, ner_tags, a_word_ids)
    /\ a_pc' = "aligned"
    /\ UNCHANGED <<a_cat, ner_tags, a_word_ids, recon, stageVars, twinVars, parserVars, pipelineVars, serverVars, repVars, listVars, constructVars, cacheVars, swbVars>>

\* the aligned labels read back the way _get_word_labels reads predictions
ReadBack ==
    /\ a_pc = "aligned"
    /\ recon' = get_word_labels(Id2Label(a_cat), a_word_ids, label_ids)
    /\ a_pc' = "read"
    /\ UNCHANGED <<a_cat, ner_tags, a_word_ids, label_ids, stageVars, twinVars, parserVars, pipelineVars, serverVars, repVars, listVars, constructVars, cacheVars, swbVars>>

NextAlign == Align \/ ReadBack

SpecAlign == InitAlign /\ [][NextAlign]_vars

----------------------------------------------------------------------------
(* One run of one parser over one annotated transcript *)

Pieces ==
    { <<"{", "F", " ">>, <<"{", "D", " ">>, <<"{", "C", " ">>, <<"}">>,
      <<"[">>, <<"+">>, <<"]">>, <<"+", " ", "a", "]">>,
      <<"a">>, <<"-", "b", " ", "c">>,
      <<"<">>, <<"<", "b", ">">> }

RECURSIVE Concat(_)
Concat(ps) == IF ps = <<>> THEN <<>> ELSE Head(ps) \o Concat(Tail(ps))

Transcripts == {Concat(ps) : ps \in SeqsUpTo(Pieces, MaxPieces)}

InitParser ==
    /\ variant \in Variants
    /\ annotated \in Transcripts
    /\ p_text = <<>> /\ p_i = 0 /\ tokens = <<>> /\ tags = <<>>
    /\ p_pc = "start" /\ rule = "none" /\ prev_i = 0 /\ iters = 0
    /\ StageIdle /\ TwinIdle /\ AlignIdle /\ PipelineIdle /\ ServerIdle /\ RepIdle /\ ListIdle /\ ConstructIdle /\ CacheIdle /\ SwbIdle

\* tokens = [], tags = [], text = re.sub(...), i = 0
Begin ==
    /\ p_pc = "start"
    /\ p_text' = StripMarkup(annotated)
    /\ p_pc' = "scan"
    /\ UNCHANGED <<variant, annotated, p_i, tokens, tags, rule, prev_i, iters,
                   stageVars, twinVars, alignVars, pipelineVars, serverVars, repVars, listVars, constructVars, cacheVars, swbVars>>

\* one iteration of while i < len(text)
ScanStep ==
    /\ p_pc = "scan"
    /\ p_i < Len(p_text)
    /\ LET r == Iterate(variant, Rest(p_text, p_i))
       IN  /\ tokens' = tokens \o r.out.tokens
           /\ tags' = tags \o r.out.tags
           /\ p_i' = p_i + r.end
           /\ rule' = r.rule
    /\ prev_i' = p_i
    /\ iters' = iters + 1
    /\ UNCHANGED <<variant, annotated, p_text, p_pc, stageVars, twinVars, alignVars, pipelineVars, serverVars, repVars, listVars, constructVars, cacheVars, swbVars>>

\* return tokens, tags
Return ==
    /\ p_pc = "scan"
    /\ p_i >= Len(p_text)
    /\ p_pc' = "done"
    /\ UNCHANGED <<variant, annotated, p_text, p_i, tokens, tags, rule, prev_i, iters,
                   stageVars, twinVars, alignVars, pipelineVars, serverVars, repVars, listVars, constructVars, cacheVars, swbVars>>

NextParser == Begin \/ ScanStep \/ Return

SpecParser == InitParser /\ [][NextParser]_vars

----------------------------------------------------------------------------
(* One pipeline: built, perhaps changed, then called once *)

PipeChars == {"a", " "}
PipeTexts == SeqsUpTo(PipeChars, MaxPipeText)

othersIdleForPipeline ==
    StageIdle /\ TwinIdle /\ AlignIdle /\ ParserIdle /\ ServerIdle /\ RepIdle /\ ListIdle /\ ConstructIdle /\ CacheIdle /\ SwbIdle

\* TranscriptPipeline(enable_fillers, enable_repetitions, enable_repairs,
\* custom_models); custom_models is None (not given) or a list, and a list
\* that is empty is as falsy as None
InitPipeline ==
    /\ \E ef \in BOOLEAN, er \in BOOLEAN, ep \in BOOLEAN, given \in BOOLEAN :
       \E custom_models \in SeqsUpTo(PipelineClasses, MaxModels) :
            /\ ~given => custom_models = <<>>
            /\ pl_args = [given |-> given, custom_models |-> custom_models]
            /\ IF given /\ custom_models /= <<>>
               THEN models = custom_models /\ origin = "custom"
               ELSE models = FromFlags(ef, er, ep) /\ origin = "flags"
    /\ pl_text \in PipeTexts
    /\ pl_result = <<>>
    /\ pl_trace = <<>>
    /\ pl_pc = "built"
    /\ othersIdleForPipeline

add_model ==
    /\ pl_pc = "built"
    /\ Len(models) < MaxModels
    /\ \E model \in PipelineClasses : models' = Append(models, model)
    /\ origin' = "mutated"
    /\ UNCHANGED <<pl_args, pl_text, pl_result, pl_trace, pl_pc,
                   stageVars, twinVars, alignVars, parserVars, serverVars, repVars, listVars, constructVars, cacheVars, swbVars>>

insert_model ==
    /\ pl_pc = "built"
    /\ Len(models) < MaxModels
    /\ \E model \in PipelineClasses, index \in (0 - MaxModels)..MaxModels :
            models' = ListInsert(models, index, model)
    /\ origin' = "mutated"
    /\ UNCHANGED <<pl_args, pl_text, pl_result, pl_trace, pl_pc,
                   stageVars, twinVars, alignVars, parserVars, serverVars, repVars, listVars, constructVars, cacheVars, swbVars>>

\* pipeline.process(text)
PipelineProcess ==
    /\ pl_pc = "built"
    /\ \E r \in ProcessRuns(models, 1, pl_text, <<>>) :
            /\ pl_result' = [kind |-> "process", output |-> r.output,
                             steps |-> <<>>]
            /\ pl_trace' = r.trace
    /\ pl_pc' = "done"
    /\ UNCHANGED <<models, origin, pl_args, pl_text,
                   stageVars, twinVars, alignVars, parserVars, serverVars, repVars, listVars, constructVars, cacheVars, swbVars>>

\* pipeline.process_with_details(text)
PipelineProcessWithDetails ==
    /\ pl_pc = "built"
    /\ \E r \in DetailRuns(models, 1, pl_text, <<>>, <<>>) :
            /\ pl_result' = [kind |-> IF r.kind = "ok" THEN "details" ELSE r.kind,
                             output |-> r.output, steps |-> r.steps]
            /\ pl_trace' = r.trace
    /\ pl_pc' = "done"
    /\ UNCHANGED <<models, origin, pl_args, pl_text,
                   stageVars, twinVars, alignVars, parserVars, serverVars, repVars, listVars, constructVars, cacheVars, swbVars>>

NextPipeline ==
    add_model \/ insert_model \/ PipelineProcess \/ PipelineProcessWithDetails

SpecPipeline == InitPipeline /\ [][NextPipeline]_vars

----------------------------------------------------------------------------
(* One POST /process *)

ModelNames == DOMAIN AVAILABLE_MODELS
ServerTexts == SeqsUpTo(PipeChars, MaxServerText)

\* bodies: without "text"; with "text" and no "models"; with both
Requests ==
    {[has_text |-> FALSE, text |-> <<>>, has_models |-> FALSE, models |-> <<>>,
      list_style |-> "bullets"]}
    \cup {[has_text |-> TRUE, text |-> t, has_models |-> FALSE, models |-> <<>>,
           list_style |-> "bullets"] : t \in ServerTexts}
    \cup [has_text : {TRUE}, text : ServerTexts, has_models : {TRUE},
          models : SeqsUpTo(ModelNames \cup {"other"}, MaxRequested),
          list_style : {"bullets", "numbered"}]

InitServer ==
    /\ MODELS \in SUBSET ModelNames
    /\ request \in Requests
    /\ response = <<>>
    /\ sv_trace = <<>>
    /\ sv_pc = "ready"
    /\ StageIdle /\ TwinIdle /\ AlignIdle /\ ParserIdle /\ PipelineIdle /\ RepIdle /\ ListIdle /\ ConstructIdle /\ CacheIdle /\ SwbIdle

\* the handler of POST /process
ServeProcess ==
    /\ sv_pc = "ready"
    /\ IF ~request.has_text
       THEN /\ response' = [status |-> 400, text |-> <<>>, original |-> <<>>,
                            models_applied |-> <<>>, has_error |-> TRUE]
            /\ sv_trace' = <<>>
       ELSE LET requested_models == IF request.has_models THEN request.models
                                    ELSE DEFAULT_MODELS
            IN  \E r \in HandlerRuns(StagesToRun(requested_models, MODELS), 1,
                                     request.text, <<>>, <<>>, request.list_style) :
                    /\ response' = [status |-> 200, text |-> r.text,
                                    original |-> request.text,
                                    models_applied |-> r.models_applied,
                                    has_error |-> FALSE]
                    /\ sv_trace' = r.trace
    /\ sv_pc' = "done"
    /\ UNCHANGED <<MODELS, request,
                   stageVars, twinVars, alignVars, parserVars, pipelineVars, repVars, listVars, constructVars, cacheVars, swbVars>>

NextServer == ServeProcess

SpecServer == InitServer /\ [][NextServer]_vars

----------------------------------------------------------------------------
(* One call of is_repetition *)

\* (word, tag) pairs: two word strings, one also capitalised, and every kind
\* of tag (reparandum, fluent, other)
Symbols ==
    { [word |-> <<"a">>, tag |-> "BE"], [word |-> <<"b">>, tag |-> "IE"],
      [word |-> <<"A">>, tag |-> "BE_IP"], [word |-> <<"a">>, tag |-> "O"],
      [word |-> <<"b">>, tag |-> "C"], [word |-> <<"b">>, tag |-> "IP"] }

Examples == SeqsUpTo(Symbols, MaxExample)

WordsOf(ex) == [k \in DOMAIN ex |-> ex[k].word]
TagsOf(ex) == [k \in DOMAIN ex |-> ex[k].tag]

LoaderIdle ==
    /\ row = NoRow /\ row_verdict = NoVerdict /\ counters = <<>>
    /\ n_tokens = 0 /\ appended = <<>> /\ before = <<>> /\ l_pc = "idle"

InitClassify ==
    /\ example \in Examples
    /\ verdict = NoVerdict
    /\ c_pc = "input"
    /\ LoaderIdle
    /\ StageIdle /\ TwinIdle /\ AlignIdle /\ ParserIdle /\ PipelineIdle
    /\ ServerIdle /\ ListIdle /\ ConstructIdle /\ CacheIdle /\ SwbIdle

Classify ==
    /\ c_pc = "input"
    /\ verdict' = is_repetition(WordsOf(example), TagsOf(example))
    /\ c_pc' = "done"
    /\ UNCHANGED <<example, row, row_verdict, counters, n_tokens,
                   appended, before, l_pc, stageVars, twinVars, alignVars, parserVars,
                   pipelineVars, serverVars, listVars, constructVars, cacheVars, swbVars>>

NextClassify == Classify

SpecClassify == InitClassify /\ [][NextClassify]_vars

----------------------------------------------------------------------------
(* load_repetition_data over a file of at most MaxRows rows *)

RowWords == {<<"a">>, <<"A">>, <<"b">>}
RowTags == {"BE", "IE", "BE_IP", "O", "C", "IP"}

\* rows whose two literals parse (the lists may differ in length) and a row
\* on which ast.literal_eval raises
Rows ==
    {[kind |-> "malformed", words |-> <<>>, tags |-> <<>>]}
    \cup [kind : {"ok"}, words : SeqsUpTo(RowWords, MaxRowWords),
          tags : SeqsUpTo(RowTags, MaxRowWords)]

InitRepData ==
    /\ row = NoRow /\ row_verdict = NoVerdict
    /\ counters = ZeroCounters
    /\ n_tokens = 0
    /\ appended = <<>>
    /\ before = [counters |-> ZeroCounters, n_tokens |-> 0]
    /\ l_pc = "top"
    /\ example = <<>> /\ verdict = NoVerdict
    /\ c_pc = "idle"
    /\ StageIdle /\ TwinIdle /\ AlignIdle /\ ParserIdle /\ PipelineIdle
    /\ ServerIdle /\ ListIdle /\ ConstructIdle /\ CacheIdle /\ SwbIdle

\* the reader yields a row and the loop body runs on it
HandleRow ==
    /\ l_pc = "top"
    /\ counters.total < MaxRows
    /\ \E r \in Rows :
         LET h == handle_row(r, counters, n_tokens)
         IN  /\ row' = r
             /\ row_verdict' = h.verdict
             /\ counters' = h.counters
             /\ n_tokens' = h.n_tokens
             /\ appended' = h.appended
    /\ before' = [counters |-> counters, n_tokens |-> n_tokens]
    /\ l_pc' = "handled"
    /\ UNCHANGED <<example, verdict, c_pc, stageVars, twinVars,
                   alignVars, parserVars, pipelineVars, serverVars, listVars, constructVars, cacheVars, swbVars>>

\* back to the head of the loop
NextRow ==
    /\ l_pc = "handled"
    /\ l_pc' = "top"
    /\ row' = NoRow /\ row_verdict' = NoVerdict /\ appended' = <<>>
    /\ before' = [counters |-> counters, n_tokens |-> n_tokens]
    /\ UNCHANGED <<counters, n_tokens, example, verdict, c_pc,
                   stageVars, twinVars, alignVars, parserVars, pipelineVars,
                   serverVars, listVars, constructVars, cacheVars, swbVars>>

\* the reader is exhausted: the summary divides kept by kept + skipped_repair
EndOfFile ==
    /\ l_pc = "top"
    /\ l_pc' = IF counters.kept + counters.skipped_repair = 0
               THEN "ZeroDivisionError" ELSE "returned"
    /\ UNCHANGED <<row, row_verdict, counters, n_tokens, appended, before,
                   example, verdict, c_pc, stageVars, twinVars,
                   alignVars, parserVars, pipelineVars, serverVars, listVars, constructVars, cacheVars, swbVars>>

NextRepData == HandleRow \/ NextRow \/ EndOfFile

SpecRepData == InitRepData /\ [][NextRepData]_vars

----------------------------------------------------------------------------
(* load_switchboard_data over a file of at most MaxRows rows, and the two   *)
(* loaders side by side                                                     *)

InitSwitchboard ==
    /\ sw_row = NoRow
    /\ sw_count = 0 /\ sw_skipped = 0 /\ sw_n = 0
    /\ sw_appended = <<>>
    /\ sw_before = [count |-> 0, skipped |-> 0, n |-> 0]
    /\ sw_pc = "top"
    /\ StageIdle /\ TwinIdle /\ AlignIdle /\ ParserIdle /\ PipelineIdle
    /\ ServerIdle /\ RepIdle /\ ListIdle /\ ConstructIdle /\ CacheIdle

OtherGroupsUnchangedBySwitchboard ==
    UNCHANGED <<stageVars, twinVars, alignVars, parserVars, pipelineVars,
                serverVars, repVars, listVars, constructVars, cacheVars>>

\* the reader yields a row and the loop body runs on it
SwbHandleRow ==
    /\ sw_pc = "top"
    /\ sw_count + sw_skipped < MaxRows
    /\ \E r \in Rows :
         LET h == swb_handle_row(r, sw_count, sw_skipped, sw_n)
         IN  /\ sw_row' = r
             /\ sw_count' = h.count
             /\ sw_skipped' = h.skipped
             /\ sw_n' = h.n
             /\ sw_appended' = h.appended
    /\ sw_before' = [count |-> sw_count, skipped |-> sw_skipped, n |-> sw_n]
    /\ sw_pc' = "handled"
    /\ OtherGroupsUnchangedBySwitchboard

\* back to the head of the loop
SwbNextRow ==
    /\ sw_pc = "handled"
    /\ sw_pc' = "top"
    /\ sw_row' = NoRow /\ sw_appended' = <<>>
    /\ sw_before' = [count |-> sw_count, skipped |-> sw_skipped, n |-> sw_n]
    /\ UNCHANGED <<sw_count, sw_skipped, sw_n>>
    /\ OtherGroupsUnchangedBySwitchboard

\* the reader is exhausted: return tokens_list, tags_list
SwbReturn ==
    /\ sw_pc = "top"
    /\ sw_pc' = "returned"
    /\ UNCHANGED <<sw_row, sw_count, sw_skipped, sw_n, sw_appended, sw_before>>
    /\ OtherGroupsUnchangedBySwitchboard

NextSwitchboard == SwbHandleRow \/ SwbNextRow \/ SwbReturn

\* either loader on its file
InitLoaders == InitRepData \/ InitSwitchboard

NextLoaders == NextRepData \/ NextSwitchboard

SpecLoaders == InitLoaders /\ [][NextLoaders]_vars

----------------------------------------------------------------------------
(* _fix_newlines, then convert_list_style, on one text *)

ListChars == {"a", "A", " ", "-", "\n"}
ListTexts == SeqsUpTo(ListChars, MaxListText)
ListStyles == {"bullets", "numbered", "other"}

InitListText ==
    /\ lt_text \in ListTexts
    /\ lt_fixed = <<>> /\ lt_style = "none" /\ lt_converted = <<>>
    /\ lt_pc = "input"
    /\ StageIdle /\ TwinIdle /\ AlignIdle /\ ParserIdle /\ PipelineIdle
    /\ ServerIdle /\ RepIdle /\ ConstructIdle /\ CacheIdle /\ SwbIdle

\* ListFormatter._fix_newlines(text)
FixNewlines ==
    /\ lt_pc = "input"
    /\ lt_fixed' = fix_newlines(lt_text)
    /\ lt_pc' = "fixed"
    /\ UNCHANGED <<lt_text, lt_style, lt_converted, stageVars, twinVars,
                   alignVars, parserVars, pipelineVars, serverVars, repVars, constructVars, cacheVars, swbVars>>

\* convert_list_style(text, style)
ConvertListStyle ==
    /\ lt_pc = "fixed"
    /\ \E style \in ListStyles :
            /\ lt_style' = style
            /\ lt_converted' = convert_list_style(lt_text, style)
    /\ lt_pc' = "converted"
    /\ UNCHANGED <<lt_text, lt_fixed, stageVars, twinVars, alignVars,
                   parserVars, pipelineVars, serverVars, repVars, constructVars, cacheVars, swbVars>>

NextListText == FixNewlines \/ ConvertListStyle

SpecListText == InitListText /\ [][NextListText]_vars

----------------------------------------------------------------------------
(* One construction *)

DirectoryNames == Range(MODEL_DIR) \cup {"custom-model"}

ConstructorCalls ==
    [kind : {"stage"}, cls : DOMAIN MODEL_DIR, model_path : {"", "custom-model"},
     flags : {<<FALSE, FALSE, FALSE>>}]
    \cup [kind : {"pipeline"}, cls : {"TranscriptPipeline"}, model_path : {""},
          flags : BOOLEAN \X BOOLEAN \X BOOLEAN]

InitConstruct ==
    /\ dirs \in SUBSET DirectoryNames
    /\ cn_args \in ConstructorCalls
    /\ cn_result = <<>>
    /\ cn_loaded = <<>>
    /\ cn_pc = "args"
    /\ StageIdle /\ TwinIdle /\ AlignIdle /\ ParserIdle /\ PipelineIdle
    /\ ServerIdle /\ RepIdle /\ ListIdle /\ CacheIdle /\ SwbIdle

\* FillerRemover(...), RepetitionRemover(...), RepairRemover(...), ListFormatter(...)
ConstructStage ==
    /\ cn_pc = "args" /\ cn_args.kind = "stage"
    /\ \E o \in construct_stage(cn_args.cls, cn_args.model_path, dirs) :
            /\ cn_result' = [status |-> o.status,
                             models |-> IF o.status = "ok" THEN <<cn_args.cls>>
                                        ELSE <<>>]
            /\ cn_loaded' = o.loaded
    /\ cn_pc' = "done"
    /\ UNCHANGED <<dirs, cn_args, stageVars, twinVars, alignVars, parserVars,
                   pipelineVars, serverVars, repVars, listVars, cacheVars, swbVars>>

\* TranscriptPipeline(enable_fillers, enable_repetitions, enable_repairs)
ConstructPipeline ==
    /\ cn_pc = "args" /\ cn_args.kind = "pipeline"
    /\ \E o \in ConstructFrom(FromFlags(cn_args.flags[1], cn_args.flags[2],
                                        cn_args.flags[3]), 1, <<>>, <<>>, dirs) :
            /\ cn_result' = [status |-> o.status, models |-> o.models]
            /\ cn_loaded' = o.loaded
    /\ cn_pc' = "done"
    /\ UNCHANGED <<dirs, cn_args, stageVars, twinVars, alignVars, parserVars,
                   pipelineVars, serverVars, repVars, listVars, cacheVars, swbVars>>

NextConstruct == ConstructStage \/ ConstructPipeline

SpecConstruct == InitConstruct /\ [][NextConstruct]_vars

----------------------------------------------------------------------------
(* The lazily loaded instances of ml/pipeline/server.py, called from two     *)
(* threads.  A step is what runs between two points where the interpreter  *)
(* may switch threads: the test of the global, the constructor call, the   *)
(* store into the global, the load for the return.                         *)

MaxCalls == 2

Threads == {"t1", "t2"}

\* _full_pipeline, _filler_only, _rep_only
Kinds == {"full_pipeline", "filler_only", "rep_only"}

\* the test of every getter that always finds nothing cached
NeverCached(v) == TRUE

\* "if _full_pipeline is None" (likewise _filler_only, _rep_only)
IsNone(v) == v = None

InitCache ==
    /\ cache = [k \in Kinds |-> None]
    /\ th_pc = [t \in Threads |-> "idle"]
    /\ th_kind = [t \in Threads |-> "full_pipeline"]
    /\ th_local = [t \in Threads |-> None]
    /\ th_calls = [t \in Threads |-> 0]
    /\ constructed = [k \in Kinds |-> 0]
    /\ returned = [k \in Kinds |-> <<>>]
    /\ overlapped = [k \in Kinds |-> FALSE]
    /\ StageIdle /\ TwinIdle /\ AlignIdle /\ ParserIdle /\ PipelineIdle
    /\ ServerIdle /\ RepIdle /\ ListIdle /\ ConstructIdle /\ SwbIdle

OtherGroupsUnchangedByCache ==
    UNCHANGED <<stageVars, twinVars, alignVars, parserVars, pipelineVars,
                serverVars, repVars, listVars, constructVars, swbVars>>

\* thread t enters get_full_pipeline(), get_filler_model() or get_rep_model()
Call(t, k) ==
    /\ th_pc[t] = "idle"
    /\ th_calls[t] < MaxCalls
    /\ th_pc' = [th_pc EXCEPT ![t] = "test"]
    /\ th_kind' = [th_kind EXCEPT ![t] = k]
    /\ th_calls' = [th_calls EXCEPT ![t] = @ + 1]
    /\ overlapped' = [overlapped EXCEPT ![k] =
            @ \/ \E u \in Threads \ {t} : th_pc[u] /= "idle" /\ th_kind[u] = k]
    /\ UNCHANGED <<cache, th_local, constructed, returned>>
    /\ OtherGroupsUnchangedByCache

\* if _x is None:
TestNone(t) ==
    /\ th_pc[t] = "test"
    /\ th_pc' = [th_pc EXCEPT ![t] =
            IF IsNone(cache[th_kind[t]]) THEN "construct" ELSE "return"]
    /\ UNCHANGED <<cache, th_kind, th_local, th_calls, constructed, returned,
                   overlapped>>
    /\ OtherGroupsUnchangedByCache

\* the right-hand side TranscriptPipeline(), FillerRemover() or
\* RepetitionRemover(): a new instance, or FileNotFoundError leaves the call
Construct(t) ==
    /\ th_pc[t] = "construct"
    /\ \/ /\ constructed' = [constructed EXCEPT ![th_kind[t]] = @ + 1]
          /\ th_local' = [th_local EXCEPT ![t] = constructed[th_kind[t]] + 1]
          /\ th_pc' = [th_pc EXCEPT ![t] = "store"]
       \/ /\ th_pc' = [th_pc EXCEPT ![t] = "idle"]
          /\ UNCHANGED <<constructed, th_local>>
    /\ UNCHANGED <<cache, th_kind, th_calls, returned, overlapped>>
    /\ OtherGroupsUnchangedByCache

\* _x = <the new instance>
Store(t) ==
    /\ th_pc[t] = "store"
    /\ cache' = [cache EXCEPT ![th_kind[t]] = th_local[t]]
    /\ th_pc' = [th_pc EXCEPT ![t] = "return"]
    /\ UNCHANGED <<th_kind, th_local, th_calls, constructed, returned, overlapped>>
    /\ OtherGroupsUnchangedByCache

\* return _x
ReturnCached(t) ==
    /\ th_pc[t] = "return"
    /\ returned' = [returned EXCEPT ![th_kind[t]] = Append(@, cache[th_kind[t]])]
    /\ th_pc' = [th_pc EXCEPT ![t] = "idle"]
    /\ UNCHANGED <<cache, th_kind, th_local, th_calls, constructed, overlapped>>
    /\ OtherGroupsUnchangedByCache

NextCache ==
    \E t \in Threads :
        \/ \E k \in Kinds : Call(t, k)
        \/ TestNone(t)
        \/ Construct(t)
        \/ Store(t)
        \/ ReturnCached(t)

SpecCache == InitCache /\ [][NextCache]_vars

----------------------------------------------------------------------------
(* Properties of one stage call *)

words_of_text == split(text)

AllLabelledO ==
    \A i \in 1..Len(words_of_text) : LabelOf(word_labels, i - 1) = O

\* no whitespace but single " " between words, none at either end
SingleSpaced(t) ==
    /\ t /= <<>>
    /\ ~IsSpace(t[1]) /\ ~IsSpace(t[Len(t)])
    /\ \A k \in 1..Len(t) : IsSpace(t[k]) => t[k] = " "
    /\ \A k \in 1..(Len(t) - 1) : ~(IsSpace(t[k]) /\ IsSpace(t[k + 1]))

\* the elements of ws at the indices in S, in increasing index order
AtIndices(ws, S) ==
    [k \in 1..Cardinality(S) |->
        ws[CHOOSE i \in S : Cardinality({j \in S : j <= i}) = k]]

\* C3 as stated: if every word is labelled O, process(text) returns exactly
\* text, whatever whitespace text holds.
C3_Original == (called /\ AllLabelledO) => output = text

\* C3 amended: if every word is labelled O, process(text) returns the words
\* of text in order; it returns exactly text if and only if text is blank or
\* its words are separated by single spaces with no whitespace at the ends.
C3_Amended ==
    (called /\ AllLabelledO) =>
        /\ split(output) = words_of_text
        /\ (output = text) <=> (IsBlank(text) \/ SingleSpaced(text))

C3_Witness ==
    /\ called /\ AllLabelledO
    /\ Len(words_of_text) >= 2
    /\ \E k \in 1..Len(text) : text[k] = "\t"
    /\ output /= text

\* C10: a baseline stage on non-blank text keeps exactly the words whose
\* resolved tag is O, unaltered and in their original order, and joins them
\* with single spaces.
C10_BaselineKeepsO ==
    (called /\ stage.cls /= "RepairRemover" /\ ~IsBlank(text)) =>
        LET kept == {i \in 1..Len(words_of_text) :
                        LabelOf(word_labels, i - 1) = O}
        IN  /\ split(output) = AtIndices(words_of_text, kept)
            /\ output = <<>> \/ SingleSpaced(output)

C10_Witness ==
    /\ called /\ stage.cls = "FillerRemover" /\ Len(words_of_text) = 2
    /\ LabelOf(word_labels, 0) = I(FILL)
    /\ LabelOf(word_labels, 1) = O
    /\ words_of_text[1] /= words_of_text[2]
    /\ output = words_of_text[2]


----------------------------------------------------------------------------
(* Properties of the parsers *)

IsInside(tag) == Len(tag) > 2 /\ tag[1] = "I" /\ tag[2] = "-"
CategoryOf(tag) == SubSeq(tag, 3, Len(tag))

\* C5: in both parsers no I-X tag is first in the tag sequence or follows
\* anything but B-X or I-X of the same category X, also for a repair bracket
\* whose reparandum begins with a fragment word ('-...').
C5_SpansOpenWithB ==
    \A k \in 1..Len(tags) :
        IsInside(tags[k]) =>
            /\ k > 1
            /\ tags[k - 1] \in {B(CategoryOf(tags[k])), I(CategoryOf(tags[k]))}

\* C6: at every point of the scan and in the result, the token list and the
\* tag list are equally long.
C6_TokensPairedWithTags == Len(tokens) = Len(tags)

C6_Witness ==
    /\ p_pc = "done" /\ variant = "parse_disfluency_speech_transcript"
    /\ annotated = <<"[", "-", "b", " ", "c", "+", " ", "a", "]">>
    /\ tokens = << <<"c">>, <<"a">> >>
    /\ Len(tags) = 2

HasChar(s, c) == \E k \in 1..Len(s) : s[k] = c

\* C7: the scan ends for every input: each iteration moves the cursor forward
\* by at least one character and the cursor never passes the end, so the
\* loop runs at most len(text) times; a bracket that is not terminated is
\* left to the plain-word and skip-one-character branches.
C7_ScanAdvances ==
    /\ iters <= p_i /\ p_i <= Len(p_text)
    /\ (p_pc = "done") => p_i = Len(p_text)
    /\ rule /= "none" =>
        LET rest == Rest(p_text, prev_i)
        IN  /\ p_i > prev_i
            /\ (rest[1] = "{" /\ ~HasChar(rest, "}")) =>
                    (rule = "skip" /\ p_i = prev_i + 1)
            /\ (rest[1] = "[" /\ (~HasChar(rest, "+") \/ ~HasChar(rest, "]"))) =>
                    (rule = "skip" /\ p_i = prev_i + 1)
            /\ (~HasChar(rest, "}") /\ ~HasChar(rest, "]")) =>
                    rule \in {"word", "skip"}

C7_Witness ==
    /\ p_pc = "done"
    /\ annotated = <<"{", "F", " ", "[", "a">>
    /\ tokens = << <<"f">>, <<"a">> >>
    /\ tags = <<O, O>>

----------------------------------------------------------------------------
(* Properties of the alignment *)

\* position idx is the first subword of its word
IsFirstSubword(wids, idx) ==
    /\ wids[idx] /= None
    /\ \A j \in 1..(idx - 1) : wids[j] /= wids[idx]

Covered(wids, n) == \A w \in 0..(n - 1) : \E k \in 1..Len(wids) : wids[k] = w

RoundTrips ==
    /\ DOMAIN recon = 0..(Len(ner_tags) - 1)
    /\ \A w \in 0..(Len(ner_tags) - 1) :
            recon[w] = Id2Label(a_cat)[ner_tags[w + 1]]

AgreeOnFirstSubwords ==
    \A idx \in 1..Len(word_ids) :
        IsFirstSubword(word_ids, idx) => predictions[idx] = predictions2[idx]

\* C9: two prediction vectors over the same index map that agree on the
\* first subword of every word give the same word labels and the same
\* process output, whatever they say on later subwords and special tokens.
C9_FirstSubwordOnly ==
    (called /\ AgreeOnFirstSubwords) =>
        (word_labels = word_labels2 /\ output = output2)

C9_Witness ==
    /\ called /\ AgreeOnFirstSubwords
    /\ \E idx \in 1..Len(word_ids) :
            /\ word_ids[idx] /= None /\ ~IsFirstSubword(word_ids, idx)
            /\ predictions[idx] = 0 /\ predictions2[idx] /= 0
    /\ \E idx \in 1..Len(word_ids) :
            word_ids[idx] = None /\ predictions[idx] /= predictions2[idx]
    /\ output = output2 /\ output /= text

----------------------------------------------------------------------------
(* Properties of a pipeline call *)

DetailsReturned == pl_pc = "done" /\ pl_result.kind = "details"
ProcessReturned == pl_pc = "done" /\ pl_result.kind = "process"

BothPresent ==
    /\ \E k \in DOMAIN models : models[k] = "FillerRemover"
    /\ \E k \in DOMAIN models : models[k] = "RepetitionRemover"

FillerStepsFirst ==
    \A m \in DOMAIN pl_result.steps, n \in DOMAIN pl_result.steps :
        (/\ pl_result.steps[m].model = "FillerRemover"
         /\ pl_result.steps[n].model = "RepetitionRemover") => m < n

\* C1 as stated: with filler and repetition removal both in the pipeline, the
\* steps of process_with_details list the filler step before the repetition
\* step, however the stage list was built.
C1_Original == (DetailsReturned /\ BothPresent) => FillerStepsFirst

\* C1, amended: the steps of process_with_details list the stages in the
\* order of the stage list; the filler step precedes the repetition step
\* when the list was built from the enable flags alone (no custom_models, no
\* add_model, no insert_model).
C1_Amended ==
    DetailsReturned =>
        /\ Len(pl_result.steps) = Len(models)
        /\ \A k \in DOMAIN models : pl_result.steps[k].model = models[k]
        /\ (origin = "flags" /\ BothPresent) => FillerStepsFirst

C1_Witness ==
    /\ DetailsReturned /\ origin = "flags" /\ BothPresent
    /\ Len(pl_result.steps) = 2
    /\ pl_result.steps[1].removed /= <<>>
    /\ pl_result.steps[2].input = pl_result.steps[1].output

TotalCalls(trace) == SumSeq([k \in DOMAIN trace |-> trace[k].calls])

\* C4: process on an empty or whitespace-only text returns the text
\* unchanged without calling the labeling or generation capability, for each
\* stage class and for the pipeline as a whole, and applying process to the
\* result again returns the same text.
C4_BlankUnchanged ==
    ProcessReturned =>
        /\ \A k \in DOMAIN pl_trace :
                IsBlank(pl_trace[k].input) =>
                    /\ pl_trace[k].output = pl_trace[k].input
                    /\ pl_trace[k].calls = 0
                    /\ \A o \in ProcessOutcomes(pl_trace[k].model, pl_trace[k].output) :
                            o.output = pl_trace[k].input /\ o.calls = 0
        /\ IsBlank(pl_text) =>
                /\ pl_result.output = pl_text
                /\ TotalCalls(pl_trace) = 0
                /\ \A r \in ProcessRuns(models, 1, pl_result.output, <<>>) :
                        r.output = pl_text /\ TotalCalls(r.trace) = 0

C4_Witness ==
    /\ ProcessReturned
    /\ IsBlank(pl_text) /\ pl_text /= <<>>
    /\ Len(pl_trace) = 2
    /\ \E k \in DOMAIN models : models[k] = "ListFormatter"
    /\ pl_result.output = pl_text

----------------------------------------------------------------------------
(* Properties of one POST /process *)

FixedOrder == <<"truecase", "filler", "repetition", "repair", "list">>
Rank(name) == CHOOSE k \in DOMAIN FixedOrder : FixedOrder[k] = name

Served == sv_pc = "done" /\ response.status = 200
Returned(trace) == SelectSeq(trace, LAMBDA c : ~c.raised)

\* C2: whatever list of models is requested and whatever models are loaded,
\* models_applied is a subsequence of truecase, filler, repetition, repair,
\* list with no stage repeated, and each applied stage receives the text the
\* previously applied stage produced (the first one the request's text, the
\* response the last one's output).
C2_FixedOrder ==
    Served =>
        LET applied == response.models_applied
            done == Returned(sv_trace)
        IN  /\ \A k \in DOMAIN applied : InList(applied[k], FixedOrder)
            /\ \A m \in DOMAIN applied, n \in DOMAIN applied :
                    m < n => Rank(applied[m]) < Rank(applied[n])
            /\ Len(done) = Len(applied)
            /\ \A k \in DOMAIN done :
                    /\ done[k].stage = applied[k]
                    /\ done[k].input = IF k = 1 THEN request.text
                                       ELSE done[k - 1].output
            /\ response.text = IF done = <<>> THEN request.text
                               ELSE done[Len(done)].output

C2_Witness ==
    /\ Served
    /\ request.models = <<"repetition", "filler">>
    /\ response.models_applied = <<"filler", "repetition">>
    /\ Returned(sv_trace)[1].output /= request.text
    /\ response.text = Returned(sv_trace)[1].output

----------------------------------------------------------------------------
(* Properties of the removal predicates and of process_with_details *)

WordCount(t) == Len(split(t))
LabelledO(wl, n) == {k \in 0..(n - 1) : LabelOf(wl, k) = O}

\* C11: RepairRemover.process removes every word the baseline predicate
\* removes (a tag different from O), whatever tag of O, B-X, I-X with X in
\* FILL, REP, REPAIR the word got: it keeps no more words than there are
\* words tagged O.
C11_RepairRemovesBaseline ==
    (called /\ stage.cls = "RepairRemover" /\ ~IsBlank(text)) =>
        WordCount(output) <= Cardinality(LabelledO(word_labels, WordCount(text)))

\* C12: for every stage class, text and labeling, the output reported by
\* process_with_details equals what process returns on the same text.
C12_DetailsOutputIsProcess == detailed => detail.output = output

\* C13: process_with_details reports the label of every word occurrence of
\* the input, also when one word string occurs with different labels, and
\* removed lists exactly the dropped occurrences in input order.
C13_LabelPerOccurrence ==
    (detailed /\ ~IsBlank(text)) =>
        LET words == split(text)
        IN  /\ \A k \in DOMAIN words :
                    /\ words[k] \in DOMAIN detail.labels
                    /\ detail.labels[words[k]] = LabelOf(word_labels, k - 1)
            /\ LET dropped == {k \in DOMAIN words : LabelOf(word_labels, k - 1) /= O}
                    nth(j) == CHOOSE k \in dropped :
                                Cardinality({m \in dropped : m <= k}) = j
                IN  /\ Len(detail.removed) = Cardinality(dropped)
                    /\ \A j \in DOMAIN detail.removed :
                            detail.removed[j] = words[nth(j)]

----------------------------------------------------------------------------
(* Properties of the steps of a pipeline call *)

\* C14: process_with_details records one step per stage in stage-list
\* order, each with the stage's identifier, input, output and removed words;
\* the first step's input is the call's input, every later step's input is
\* the previous step's output, and the reported output is the last step's
\* output, or the input with no steps when the stage list is empty.
C14_StepsChain ==
    DetailsReturned =>
        LET steps == pl_result.steps
        IN  /\ Len(steps) = Len(models)
            /\ \A k \in DOMAIN steps :
                    /\ DOMAIN steps[k] = {"model", "input", "output", "removed"}
                    /\ steps[k].model = models[k]
                    /\ steps[k].input = IF k = 1 THEN pl_text ELSE steps[k - 1].output
                    /\ WordCount(steps[k].input) =
                            WordCount(steps[k].output) + Len(steps[k].removed)
            /\ pl_result.output = IF steps = <<>> THEN pl_text
                                  ELSE steps[Len(steps)].output

C14_Witness ==
    /\ DetailsReturned
    /\ Len(pl_result.steps) = 2
    /\ pl_result.steps[1].output /= pl_text
    /\ pl_result.steps[2].removed /= <<>>
    /\ pl_result.output = pl_result.steps[2].output

----------------------------------------------------------------------------
(* Properties of is_repetition *)

Classified == c_pc = "done"

ReparandumAt == {k \in DOMAIN example : example[k].tag \in ReparandumTags}
\* fluent words after the first reparandum word
FluentAfter ==
    {k \in DOMAIN example :
        /\ example[k].tag \in FluentTags
        /\ \E j \in ReparandumAt : j < k}
\* the first n of a set of positions
FirstOf(positions, n) ==
    {k \in positions : Cardinality({m \in positions : m <= k}) <= n}
LoweredAt(positions) == {lower(example[k].word) : k \in positions}

ReparandumSet == LoweredAt(ReparandumAt)
WindowSet == LoweredAt(FirstOf(FluentAfter, Cardinality(ReparandumAt) + 3))

Pair(w, t) == [word |-> <<w>>, tag |-> t]

\* C15: an example with at least one reparandum word is a REPETITION exactly
\* when |reparandum set /\ repair-window set| / |reparandum set| >= 0.5, the
\* value 0.5 included, with sets of lowercased words; reparandum [i] before
\* [i, think] is a REPETITION, reparandum [store] before [mall] is a REPAIR;
\* a second call on the same example returns the same.
C15_OverlapThreshold ==
    /\ (Classified /\ ReparandumAt /= {}) =>
            (verdict.is_rep <=>
                2 * Cardinality(ReparandumSet \cap WindowSet)
                    >= Cardinality(ReparandumSet))
    /\ (Classified /\ example = <<Pair("a", "BE"), Pair("a", "O"), Pair("b", "C")>>)
            => verdict.is_rep
    /\ (Classified /\ example = <<Pair("a", "BE"), Pair("b", "C")>>)
            => ~verdict.is_rep
    /\ Classified => is_repetition(WordsOf(example), TagsOf(example)) = verdict

\* the boundary: one of two reparandum words is in the window
C15_Witness ==
    /\ Classified
    /\ Cardinality(ReparandumSet) = 2
    /\ Cardinality(ReparandumSet \cap WindowSet) = 1
    /\ verdict.is_rep

\* maximal runs of reparandum-tagged words, as [from, to]
Runs ==
    {r \in (DOMAIN example) \X (DOMAIN example) :
        /\ r[1] <= r[2]
        /\ \A k \in r[1]..r[2] : k \in ReparandumAt
        /\ (r[1] - 1) \notin ReparandumAt
        /\ (r[2] + 1) \notin ReparandumAt}

FluentBehind(r) == {k \in DOMAIN example : k > r[2] /\ example[k].tag \in FluentTags}

\* C16: also with several edit spans and duplicated reparandum words, the
\* reparandum is one contiguous run of reparandum-tagged words, the repair
\* window is the |reparandum| + 3 fluent words that follow that run (fewer
\* at the end of the sequence), and the overlap is computed from these two.
C16_ContiguousReparandum ==
    (Classified /\ ReparandumAt /= {}) =>
        \E r \in Runs :
            LET run == r[1]..r[2]
                window == FirstOf(FluentBehind(r), Cardinality(run) + 3)
            IN  /\ verdict.reparandum_words =
                        [k \in 1..Cardinality(run) |-> lower(example[r[1] + k - 1].word)]
                /\ verdict.is_rep <=>
                        2 * Cardinality(LoweredAt(run) \cap LoweredAt(window))
                            >= Cardinality(LoweredAt(run))

----------------------------------------------------------------------------
(* Properties of load_repetition_data *)

NoReparandumRow ==
    /\ l_pc = "handled" /\ row.kind = "ok" /\ Len(row.words) = Len(row.tags)
    /\ \A k \in DOMAIN row.tags : row.tags[k] \notin {"BE", "IE", "BE_IP"}

\* C17: for an example without a word tagged BE, IE or BE_IP, is_repetition
\* returns an empty reparandum list and divides nothing, and the loader
\* neither appends the example nor counts it as a skipped repair.
C17_NoReparandumNotClassified ==
    NoReparandumRow =>
        /\ row_verdict.reparandum_words = <<>>
        /\ ~row_verdict.is_rep
        /\ row_verdict.divisor = None
        /\ appended = <<>>
        /\ n_tokens = before.n_tokens
        /\ counters.kept = before.counters.kept
        /\ counters.skipped_repair = before.counters.skipped_repair

C17_Witness ==
    /\ NoReparandumRow
    /\ row.words /= <<>>
    /\ before.counters.kept = 1
    /\ counters.skipped_no_disfl = 1

----------------------------------------------------------------------------
(* Properties of _fix_newlines and convert_list_style *)

\* a ' - ' at position k (not the first) that an uppercase letter follows
SpaceDashSpaceAt(t, k) ==
    /\ k > 1 /\ k + 3 <= Len(t)
    /\ t[k] = " " /\ t[k + 1] = "-" /\ t[k + 2] = " "
    /\ IsUpper(t[k + 3])

\* C18: _fix_newlines replaces each ' - ' that an uppercase letter follows,
\* except one at the very start, with a line break and '- ', and leaves every
\* other character as it is: the result has the length of the input, a line
\* break where such a ' - ' begins, and the input's character elsewhere.
C18_OnlySpaceDashSpace ==
    lt_pc \in {"fixed", "converted"} =>
        /\ Len(lt_fixed) = Len(lt_text)
        /\ \A k \in DOMAIN lt_text :
                lt_fixed[k] = IF SpaceDashSpaceAt(lt_text, k) THEN "\n"
                              ELSE IF k > 2 /\ SpaceDashSpaceAt(lt_text, k - 2) THEN " "
                              ELSE lt_text[k]

LinesOf(t) == SplitOn(t, "\n", <<>>)
Bulleted(line) == Len(line) >= 2 /\ line[1] = "-" /\ line[2] = " "

\* the number of a bulleted line k: one more than the count of bulleted
\* lines directly before it
NumberOf(lines, k) ==
    k - (IF \E j \in 1..(k - 1) : ~Bulleted(lines[j])
         THEN CHOOSE j \in 1..(k - 1) :
                /\ ~Bulleted(lines[j])
                /\ \A m \in (j + 1)..(k - 1) : Bulleted(lines[m])
         ELSE 0)

\* C19: with style 'numbered', every line starting with '- ' becomes
\* '<n>. ' plus the rest of the line, n being 1 for the first bulleted line
\* of a run and one more for each directly following bulleted line, 1 again
\* after any other line (an empty one too); other lines and the number of
\* lines are unchanged; with another style the text is returned unchanged.
C19_NumberedRuns ==
    lt_pc = "converted" =>
        IF lt_style /= "numbered" THEN lt_converted = lt_text
        ELSE LET lines == LinesOf(lt_text)
                 out == LinesOf(lt_converted)
             IN  /\ Len(out) = Len(lines)
                 /\ \A k \in DOMAIN lines :
                        out[k] = IF Bulleted(lines[k])
                                 THEN str(NumberOf(lines, k)) \o <<".", " ">>
                                      \o SubSeq(lines[k], 3, Len(lines[k]))
                                 ELSE lines[k]

\* two bulleted lines, a line that is not, and a bulleted line again
C19_Witness ==
    /\ lt_pc = "converted" /\ lt_style = "numbered"
    /\ LET lines == LinesOf(lt_text)
           out == LinesOf(lt_converted)
       IN  /\ Len(lines) = 3
           /\ Bulleted(lines[1]) /\ ~Bulleted(lines[2]) /\ Bulleted(lines[3])
           /\ out[1][1] = "1" /\ out[3][1] = "1"

----------------------------------------------------------------------------
(* Properties of construction *)

DirectoryOf(cls, model_path) == IF model_path /= "" THEN model_path ELSE MODEL_DIR[cls]

EnabledClasses ==
    (IF cn_args.flags[1] THEN {"FillerRemover"} ELSE {})
    \cup (IF cn_args.flags[2] THEN {"RepetitionRemover"} ELSE {})
    \cup (IF cn_args.flags[3] THEN {"RepairRemover"} ELSE {})

\* C20: constructing a tagger stage or a ListFormatter whose model directory
\* does not exist fails with FileNotFoundError before its tokenizer or model
\* is loaded, and TranscriptPipeline's constructor passes the failure on: a
\* pipeline that is returned holds every enabled stage.
C20_MissingModelFails ==
    cn_pc = "done" =>
        /\ (cn_args.kind = "stage"
             /\ DirectoryOf(cn_args.cls, cn_args.model_path) \notin dirs) =>
                /\ cn_result.status = "FileNotFoundError"
                /\ cn_loaded = <<>>
        /\ cn_args.kind = "pipeline" =>
                /\ \A k \in DOMAIN cn_loaded : MODEL_DIR[cn_loaded[k]] \in dirs
                /\ (\E cls \in EnabledClasses : MODEL_DIR[cls] \notin dirs) =>
                        cn_result.status /= "ok" /\ cn_result.models = <<>>
                /\ cn_result.status = "ok" =>
                        /\ Range(cn_result.models) = EnabledClasses
                        /\ Range(cn_loaded) = EnabledClasses

\* the second enabled stage is the missing one
C20_Witness ==
    /\ cn_pc = "done" /\ cn_args.kind = "pipeline"
    /\ cn_args.flags[1] /\ cn_args.flags[2]
    /\ "filler-remover" \in dirs /\ "repetition-remover" \notin dirs
    /\ cn_loaded = <<"FillerRemover">>
    /\ cn_result.status = "FileNotFoundError"

----------------------------------------------------------------------------
(* Properties of tokenize_and_align_labels *)

\* C22: one label per subword position: -100 exactly where the word index
\* is None, the word's own tag at the first subword of a word, and at every
\* later subword I-X if the word's tag is B-X and the word's tag otherwise.
C22_LabelPerSubword ==
    a_pc \in {"aligned", "read"} =>
        /\ Len(label_ids) = Len(a_word_ids)
        /\ \A k \in DOMAIN a_word_ids :
            LET w == a_word_ids[k]
            IN  /\ (label_ids[k] = IGNORE) <=> (w = None)
                /\ w /= None =>
                    LET own == Id2Label(a_cat)[ner_tags[w + 1]]
                        got == Id2Label(a_cat)[label_ids[k]]
                    IN  IF k > 1 /\ a_word_ids[k - 1] = w
                        THEN got = IF own = B(a_cat) THEN I(a_cat) ELSE own
                        ELSE got = own

C22_Witness ==
    /\ a_pc = "aligned"
    /\ \E k \in 2..Len(a_word_ids) :
            /\ a_word_ids[k] /= None /\ a_word_ids[k - 1] = a_word_ids[k]
            /\ Id2Label(a_cat)[ner_tags[a_word_ids[k] + 1]] = B(a_cat)
            /\ Id2Label(a_cat)[label_ids[k]] = I(a_cat)
    /\ \E k \in DOMAIN a_word_ids : a_word_ids[k] = None /\ label_ids[k] = IGNORE

----------------------------------------------------------------------------
(* Properties of the lazily loaded instances *)

\* C21: as long as no two calls for a kind were in progress at once, at
\* most one instance of the kind has been constructed and every call that
\* returned has returned that one instance, the cached one.  (That two
\* interleaved first calls construct twice is the reachable state
\* C21_Witness.)
C21_LoadOnce ==
    \A k \in Kinds :
        ~overlapped[k] =>
            /\ constructed[k] <= 1
            /\ \A n \in DOMAIN returned[k] :
                    returned[k][n] = 1 /\ cache[k] = 1

\* two interleaved first calls for one kind have each run the constructor
\* and returned; two calls one after the other for another kind have
\* constructed once and returned the same instance
C21_Witness ==
    /\ overlapped["filler_only"]
    /\ constructed["filler_only"] = 2
    /\ Len(returned["filler_only"]) = 2
    /\ ~overlapped["rep_only"]
    /\ constructed["rep_only"] = 1
    /\ returned["rep_only"] = <<1, 1>>

----------------------------------------------------------------------------
(* The parsers against a scan that deletes markup where the cursor meets it *)

\* re.match(r'<[^>]+>', s).end(), 0 for no match
MarkupEnd(s) ==
    IF s /= <<>> /\ s[1] = "<"
    THEN LET k == FindFirst(s, 2, {">"})
         IN  IF k >= 3 THEN k ELSE 0
    ELSE 0

RECURSIVE InScanFrom(_, _, _, _)
\* the scan over the raw string s from cursor i: the <...> matcher first,
\* then the matchers of the loop body in their order
InScanFrom(v, s, i, acc) ==
    IF i >= Len(s) THEN acc
    ELSE LET rest == Rest(s, i)
             m == MarkupEnd(rest)
         IN  IF m > 0 THEN InScanFrom(v, s, i + m, acc)
             ELSE LET r == IterateBody(v, rest)
                  IN  InScanFrom(v, s, i + r.end,
                        [tokens |-> acc.tokens \o r.out.tokens,
                         tags |-> acc.tags \o r.out.tags])

\* C23: what a parser returns is what the scan with the <...> matcher at
\* priority 1 produces on the raw string, markup inside a word or inside a
\* bracket included.
C23_SameAsInScan ==
    p_pc = "done" =>
        [tokens |-> tokens, tags |-> tags] = InScanFrom(variant, annotated, 0, Nothing)

----------------------------------------------------------------------------
(* Properties of the bracket branches of the parsers *)

\* the last n elements of q
LastN(q, n) == SubSeq(q, Len(q) - n + 1, Len(q))

Lowered(ws) == [k \in DOMAIN ws |-> lower(ws[k])]

\* the bracket the last iteration began at
BracketAt == Rest(p_text, prev_i)

\* C24: the words of a {D ...} span are tagged O by parse_fillers_only and
\* B-REP (first word) then I-REP (later words) by
\* parse_disfluency_speech_transcript; the words of a {C ...} span are
\* tagged O by both.
C24_DiscourseAndConjunction ==
    /\ rule = "discourse" =>
          LET ws == ContentWords(BraceMatch("D", BracketAt).group1)
              n == Len(ws)
          IN  /\ Len(tokens) >= n /\ Len(tags) >= n
              /\ LastN(tokens, n) = Lowered(ws)
              /\ LastN(tags, n) =
                    [k \in 1..n |->
                        IF variant = "parse_fillers_only" THEN O
                        ELSE IF k = 1 THEN B(REP) ELSE I(REP)]
    /\ rule = "conjunction" =>
          LET ws == ContentWords(BraceMatch("C", BracketAt).group1)
              n == Len(ws)
          IN  /\ Len(tokens) >= n /\ Len(tags) >= n
              /\ LastN(tokens, n) = Lowered(ws)
              /\ LastN(tags, n) = [k \in 1..n |-> O]

C24_Witness ==
    /\ rule = "discourse"
    /\ variant = "parse_disfluency_speech_transcript"
    /\ annotated = <<"{", "D", " ", "-", "b", " ", "c", "}">>
    /\ tokens = << <<"-", "b">>, <<"c">> >>
    /\ tags = <<B(REP), I(REP)>>

NotFragment(w) == w /= <<>> /\ w[1] /= "-"

----------------------------------------------------------------------------
(* Properties of the two loaders *)

\* no I-REP first or directly after O
OpensWithB(tag_ids) ==
    \A k \in DOMAIN tag_ids :
        tag_ids[k] = LABEL2ID(I(REP)) =>
            k > 1 /\ tag_ids[k - 1] /= LABEL2ID(O)

\* C26: in every tag sequence a loader appends, no I-REP is the first tag
\* or directly follows an O.
C26_ConvertedSpansOpenWithB ==
    /\ sw_appended /= <<>> => OpensWithB(sw_appended.tag_ids)
    /\ appended /= <<>> => OpensWithB(appended.tag_ids)

\* C27: a row whose word count differs from its tag count leaves the two
\* lists as they were and is not classified; what a row appends has as many
\* tokens as the row has words and as many tags as the row has tags, which
\* are equally many.
C27_MismatchedRowDiscarded ==
    /\ sw_pc = "handled" =>
          /\ Len(sw_row.words) /= Len(sw_row.tags) =>
                /\ sw_appended = <<>>
                /\ sw_n = sw_before.n /\ sw_count = sw_before.count
                /\ sw_skipped = sw_before.skipped + 1
          /\ sw_appended /= <<>> =>
                /\ sw_n = sw_before.n + 1
                /\ Len(sw_appended.tokens) = Len(sw_row.words)
                /\ Len(sw_appended.tag_ids) = Len(sw_row.tags)
                /\ Len(sw_appended.tokens) = Len(sw_appended.tag_ids)
          /\ sw_appended = <<>> => sw_n = sw_before.n
    /\ sw_n = sw_count
    /\ l_pc = "handled" =>
          /\ Len(row.words) /= Len(row.tags) =>
                /\ appended = <<>>
                /\ n_tokens = before.n_tokens
                /\ row_verdict = NoVerdict
                /\ counters.kept = before.counters.kept
          /\ appended /= <<>> =>
                /\ n_tokens = before.n_tokens + 1
                /\ Len(appended.tokens) = Len(row.words)
                /\ Len(appended.tag_ids) = Len(row.tags)
                /\ Len(appended.tokens) = Len(appended.tag_ids)
          /\ appended = <<>> => n_tokens = before.n_tokens
    /\ l_pc /= "idle" => n_tokens = counters.kept

\* after a kept row, a row with two words and one tag is skipped
C27_Witness ==
    /\ sw_pc = "handled"
    /\ Len(sw_row.words) = 2 /\ Len(sw_row.tags) = 1
    /\ sw_before.n = 1 /\ sw_n = 1 /\ sw_skipped = 1

----------------------------------------------------------------------------
(* Properties of the handler's error handling *)

RequestedModels == IF request.has_models THEN request.models ELSE DEFAULT_MODELS

\* the calls of MODELS[name].process the handler made
CallsOf(name) == {k \in DOMAIN sv_trace : sv_trace[k].stage = name}

\* C28: models_applied holds exactly the stages that were requested, are
\* loaded and whose process call returned; only requested and loaded stages
\* are called, each once; after a call that raised, the next stage (or the
\* response) gets the text the failed stage was given; the response is a
\* success response without an error field.
C28_SkippedStagesOnlyAbsent ==
    Served =>
        /\ ~response.has_error
        /\ \A name \in ModelNames \cup {"other"} :
              /\ InList(name, response.models_applied) <=>
                    /\ InList(name, RequestedModels)
                    /\ name \in MODELS
                    /\ \E k \in CallsOf(name) : ~sv_trace[k].raised
              /\ Cardinality(CallsOf(name)) =
                    IF InList(name, RequestedModels) /\ name \in MODELS THEN 1 ELSE 0
        /\ \A k \in DOMAIN sv_trace :
              sv_trace[k].raised =>
                  IF k < Len(sv_trace)
                  THEN sv_trace[k + 1].input = sv_trace[k].input
                  ELSE response.text = sv_trace[k].input
        /\ response.original = request.text

\* filler raises and is skipped; repetition gets the request's text, changes
\* it, and is the only stage reported
C28_Witness ==
    /\ Served
    /\ request.models = <<"filler", "repetition">>
    /\ MODELS = {"filler", "repetition"}
    /\ Len(sv_trace) = 2
    /\ sv_trace[1].stage = "filler" /\ sv_trace[1].raised
    /\ sv_trace[2].input = request.text /\ ~sv_trace[2].raised
    /\ response.models_applied = <<"repetition">>
    /\ response.text /= request.text

----------------------------------------------------------------------------
(* Properties of the constructor's custom_models argument *)

\* the pipeline is as its constructor left it
AsConstructed == pl_pc /= "idle" /\ origin /= "mutated"

\* C29: when a custom_models list is passed, the stages are that list in
\* that order whatever the three flags are, for every list, the empty one
\* included, whose pipeline has no stages and whose process returns its
\* input.
C29_CustomListUsed ==
    (AsConstructed /\ pl_args.given) =>
        /\ models = pl_args.custom_models
        /\ (pl_args.custom_models = <<>> /\ ProcessReturned) =>
                pl_result.output = pl_text

----------------------------------------------------------------------------
(* _fix_newlines applied to its own result *)

\* C30: _fix_newlines is idempotent: applied to what it returned, it
\* returns the same string.
C30_FixNewlinesIdempotent ==
    lt_pc \in {"fixed", "converted"} =>
        /\ lt_fixed = fix_newlines(lt_text)
        /\ fix_newlines(lt_fixed) = lt_fixed

\* a text the fix-up rewrites, whose result still holds the pattern
C30_Witness ==
    /\ lt_pc = "fixed"
    /\ lt_text = <<"a", " ", "-", " ", "A">>
    /\ lt_fixed = <<"a", "\n", "-", " ", "A">>
    /\ fix_newlines(lt_fixed) = lt_fixed

====
